---- MODULE Spec2Model ----
(***************************************************************************)
(* Incremental MessagePack decoding: the spillover decoder of decoder.py   *)
(* (Format table, SpilloverWriter, decoder_coroutine) and the explicit     *)
(* state decoder of mpinc.py (MessagePackTypes, Decoder), driven by a      *)
(* caller that delivers a byte stream in chunks of arbitrary size.         *)
(*                                                                         *)
(* Python values are records of one shape, [k, n, s, c]:                   *)
(*   k  the Python type ("None", "bool", "int", "float", "str", "bytes",   *)
(*      "list", "tuple", "dict", "Ext")                                    *)
(*   n  the number of an int / bool, or the type of an Ext                 *)
(*   s  the code points of a str, the bytes of a bytes or the data of an   *)
(*      Ext, the sign/exponent/fraction fields of a float                  *)
(*   c  the items of a list or tuple; key, value, key, value, ... of a     *)
(*      dict in insertion order                                            *)
(* Python integers are unbounded; the inputs of the model keep every       *)
(* integer below 2^31.                                                     *)
(***************************************************************************)
EXTENDS Integers, Sequences, FiniteSets, TLC

\* impl     the decoder under test: "decoder.py", "mpinc.py", or
\*          "decoder_with_generators.py", where every buffer is written to a
\*          MessagePackDecoder and to a decoder.py Decoder alike
\* msgs     the test vectors whose encodings, one after the other, are the
\*          byte stream
\* pos      the bytes of the stream the decoders have reported as consumed
\* k        the number of decoders constructed so far
\* start    pos when the current decoder was constructed
\* calls    the write calls made on the current decoder, counted up to 2
\* lastErr  the exception the last write call raised, "" when it returned
\* nErr     the write calls of the current decoder that raised
\* offered  the end of the furthest buffer given to the current decoder
\* taken    the bytes the current decoder has put into its buffers
\* again    a write call was made on the current decoder when it already
\*          was complete
\* sw       the SpilloverWriter that decoder.py's Decoder() returned
\* mp       the mpinc.py Decoder
\* gd       the MessagePackDecoder of decoder_with_generators.py
\* default_arg  the default reader of MessagePackDecoder.fill, one object for
\*          all decoders of the process
\* alone    gd's calls run in a process of their own: the decoder d and the
\*          default reader of that process
\* other    a second MessagePackDecoder of the same process (<<>> before it
\*          is constructed), with its calls run in a process of their own
\* opos     the bytes written to the second decoder
VARIABLES impl, msgs, pos, k, start, calls, lastErr, nErr, offered, taken,
          again, sw, mp, gd, default_arg, alone, other, opos

vars == <<impl, msgs, pos, k, start, calls, lastErr, nErr, offered, taken,
          again, sw, mp, gd, default_arg, alone, other, opos>>

genVars == <<gd, default_arg, alone, other, opos>>

\* ---------------------------------------------------------------- helpers

Min(a, b) == IF a < b THEN a ELSE b

Max(a, b) == IF a > b THEN a ELSE b

RECURSIVE Pow2(_)
Pow2(e) == IF e = 0 THEN 1 ELSE 2 * Pow2(e - 1)

\* Python's x & y on bytes.
RECURSIVE BitAnd(_, _)
BitAnd(x, y) ==
    IF x = 0 \/ y = 0 THEN 0
    ELSE (x % 2) * (y % 2) + 2 * BitAnd(x \div 2, y \div 2)

\* Python's x ^ y on bytes.
RECURSIVE BitXor(_, _)
BitXor(x, y) ==
    IF x = 0 THEN y
    ELSE IF y = 0 THEN x
    ELSE ((x + y) % 2) + 2 * BitXor(x \div 2, y \div 2)

\* F(v), with v evaluated once however often F uses it.
With(v, F(_)) == CHOOSE r \in {F(x) : x \in {v}} : TRUE

\* Python's buf[a:b] for 0 <= a, with the slice clipped to the buffer.
Slice(buf, a, b) == SubSeq(buf, a + 1, Min(b, Len(buf)))

\* int.from_bytes(buf, byteorder='big', signed=False)
RECURSIVE from_bytes_unsigned(_)
from_bytes_unsigned(buf) ==
    IF buf = <<>> THEN 0
    ELSE 256 * from_bytes_unsigned(SubSeq(buf, 1, Len(buf) - 1)) + buf[Len(buf)]

\* int.from_bytes(buf, byteorder='big', signed=True): two's complement, the
\* first byte carrying the sign.
RECURSIVE from_bytes_signed(_)
from_bytes_signed(buf) ==
    IF buf = <<>> THEN 0
    ELSE IF Len(buf) = 1 THEN (IF buf[1] >= 128 THEN buf[1] - 256 ELSE buf[1])
    ELSE 256 * from_bytes_signed(SubSeq(buf, 1, Len(buf) - 1)) + buf[Len(buf)]

\* ----------------------------------------------------------- Python values

PyNone == [k |-> "None", n |-> 0, s |-> <<>>, c |-> <<>>]

PyBool(b) == [k |-> "bool", n |-> IF b THEN 1 ELSE 0, s |-> <<>>, c |-> <<>>]

PyInt(i) == [k |-> "int", n |-> i, s |-> <<>>, c |-> <<>>]

PyFloat(fields) == [k |-> "float", n |-> 0, s |-> fields, c |-> <<>>]

PyStr(cps) == [k |-> "str", n |-> 0, s |-> cps, c |-> <<>>]

PyBytes(bs) == [k |-> "bytes", n |-> 0, s |-> bs, c |-> <<>>]

PyList(items) == [k |-> "list", n |-> 0, s |-> <<>>, c |-> items]

PyTuple(items) == [k |-> "tuple", n |-> 0, s |-> <<>>, c |-> items]

PyDict(kvs) == [k |-> "dict", n |-> 0, s |-> <<>>, c |-> kvs]

PyExt(type, data) == [k |-> "Ext", n |-> type, s |-> data, c |-> <<>>]

\* The result of a call that may raise: err = "" when it returned v.
Ok(v) == [err |-> "", v |-> v]

Raise(e) == [err |-> e, v |-> PyNone]

\* hash(): lists and dicts are unhashable, a tuple is hashable when all its
\* items are.
RECURSIVE Hashable(_)
Hashable(v) ==
    IF v.k \in {"list", "dict"} THEN FALSE
    ELSE IF v.k = "tuple" THEN \A i \in 1..Len(v.c) : Hashable(v.c[i])
    ELSE TRUE

\* Equality of dict keys: True == 1 and False == 0, otherwise by value.
KeyEq(a, b) ==
    IF a.k \in {"bool", "int"} /\ b.k \in {"bool", "int"} THEN a.n = b.n
    ELSE a = b

\* d[key] = val on a dict held as key, value, key, value, ...: an equal key
\* keeps its place (and the key object first inserted), only its value changes.
RECURSIVE DictSet(_, _, _)
DictSet(kvs, key, val) ==
    IF kvs = <<>> THEN <<key, val>>
    ELSE IF KeyEq(kvs[1], key) THEN <<kvs[1], val>> \o SubSeq(kvs, 3, Len(kvs))
    ELSE <<kvs[1], kvs[2]>> \o DictSet(SubSeq(kvs, 3, Len(kvs)), key, val)

\* bytes.decode('utf8'): the code points, or a UnicodeDecodeError.
IsCont(b) == b >= 128 /\ b < 192

RECURSIVE Utf8Decode(_)
Utf8Decode(buf) ==
    IF buf = <<>> THEN Ok(PyStr(<<>>))
    ELSE
      LET b1 == buf[1]
          n  == IF b1 < 128 THEN 1
                ELSE IF b1 >= 194 /\ b1 < 224 THEN 2
                ELSE IF b1 >= 224 /\ b1 < 240 THEN 3
                ELSE IF b1 >= 240 /\ b1 < 245 THEN 4
                ELSE 0
          wellFormed == /\ n > 0
                        /\ Len(buf) >= n
                        /\ \A i \in 2..n : IsCont(buf[i])
          cp == IF n = 1 THEN b1
                ELSE IF n = 2 THEN (b1 - 192) * 64 + (buf[2] - 128)
                ELSE IF n = 3 THEN (b1 - 224) * 4096 + (buf[2] - 128) * 64
                                   + (buf[3] - 128)
                ELSE (b1 - 240) * 262144 + (buf[2] - 128) * 4096
                     + (buf[3] - 128) * 64 + (buf[4] - 128)
          valid == /\ wellFormed
                   /\ (n = 3 => cp >= 2048 /\ ~(cp >= 55296 /\ cp < 57344))
                   /\ (n = 4 => cp >= 65536 /\ cp < 1114112)
      IN IF ~valid THEN Raise("UnicodeDecodeError")
         ELSE LET rest == Utf8Decode(SubSeq(buf, n + 1, Len(buf)))
              IN IF rest.err # "" THEN rest
                 ELSE Ok(PyStr(<<cp>> \o rest.v.s))

\* ------------------------------------------------ decoder.py: the formats

\* Format.__init__: L_const is <<>> for None and <<c>> for the constant c.
Format(tag, name, build_fn, tag_bits, N_size, holds_objects, L_const, L_fn) ==
    LET tag_mask == (255 * Pow2(8 - tag_bits)) % 256
    IN [tag |-> tag, name |-> name, build_fn |-> build_fn,
        tag_mask |-> tag_mask, N_mask |-> BitXor(255, tag_mask),
        N_size |-> N_size, holds_objects |-> holds_objects,
        L_const |-> L_const, L_fn |-> L_fn]

\* The module-level list, in the order of the make_format calls. The
\* defaults of Format.__init__ (tag_bits=8, N_size=0, holds_objects=False,
\* L_const=None, L_fn=lambda N: N) are written out.
formats == <<
    Format(192, "nil", "lambda _: None", 8, 0, FALSE, <<>>, "N"),
    Format(194, "false", "lambda _: False", 8, 0, FALSE, <<>>, "N"),
    Format(195, "false", "lambda _: True", 8, 0, FALSE, <<>>, "N"),
    Format(0, "positive fixint", "lambda N: N", 1, 0, FALSE, <<0>>, "N"),
    Format(224, "negative fixint", "lambda N: -N", 3, 0, FALSE, <<0>>, "N"),
    Format(204, "uint8", "build_uint", 8, 0, FALSE, <<1>>, "N"),
    Format(205, "uint16", "build_uint", 8, 0, FALSE, <<2>>, "N"),
    Format(206, "uint32", "build_uint", 8, 0, FALSE, <<4>>, "N"),
    Format(207, "uint64", "build_uint", 8, 0, FALSE, <<8>>, "N"),
    Format(204, "int8", "build_int", 8, 0, FALSE, <<1>>, "N"),
    Format(205, "int16", "build_int", 8, 0, FALSE, <<2>>, "N"),
    Format(206, "int32", "build_int", 8, 0, FALSE, <<4>>, "N"),
    Format(207, "int64", "build_int", 8, 0, FALSE, <<8>>, "N"),
    Format(202, "float32", "build_float", 8, 0, FALSE, <<4>>, "N"),
    Format(203, "float64", "build_double", 8, 0, FALSE, <<8>>, "N"),
    Format(160, "fixstr", "build_str", 3, 0, FALSE, <<>>, "N"),
    Format(217, "str8", "build_str", 8, 1, FALSE, <<>>, "N"),
    Format(218, "str16", "build_str", 8, 2, FALSE, <<>>, "N"),
    Format(219, "str32", "build_str", 8, 4, FALSE, <<>>, "N"),
    Format(196, "bin8", "build_bin", 8, 1, FALSE, <<>>, "N"),
    Format(197, "bin16", "build_bin", 8, 2, FALSE, <<>>, "N"),
    Format(198, "bin32", "build_bin", 8, 4, FALSE, <<>>, "N"),
    Format(144, "fixarray", "build_array", 4, 0, TRUE, <<>>, "N"),
    Format(220, "array16", "build_array", 8, 2, TRUE, <<>>, "N"),
    Format(221, "array32", "build_array", 8, 4, TRUE, <<>>, "N"),
    Format(128, "fixmap", "build_map", 4, 0, TRUE, <<>>, "map_len"),
    Format(222, "map16", "build_map", 8, 2, TRUE, <<>>, "map_len"),
    Format(223, "map32", "build_map", 8, 4, TRUE, <<>>, "map_len"),
    Format(212, "fixext1", "build_ext", 8, 0, FALSE, <<2>>, "N"),
    Format(213, "fixext2", "build_ext", 8, 0, FALSE, <<3>>, "N"),
    Format(214, "fixext4", "build_ext", 8, 0, FALSE, <<5>>, "N"),
    Format(215, "fixext8", "build_ext", 8, 0, FALSE, <<9>>, "N"),
    Format(216, "fixext16", "build_ext", 8, 0, FALSE, <<17>>, "N"),
    Format(199, "ext8", "build_ext", 8, 1, FALSE, <<>>, "ext_len"),
    Format(200, "ext16", "build_ext", 8, 2, FALSE, <<>>, "ext_len"),
    Format(201, "ext32", "build_ext", 8, 4, FALSE, <<>>, "ext_len") >>

\* For every byte, the descriptors of the table whose test
\* tag_byte & format.tag_mask == format.tag (line 78) succeeds.
matchingOf ==
    [b \in 0..255 |->
       {i \in DOMAIN formats : BitAnd(b, formats[i].tag_mask) = formats[i].tag}]

matching(tag_byte) == matchingOf[tag_byte]

\* A lookup that falls back to the first descriptor instead of failing.
get_format_lenient(tag_byte) ==
    LET m == matching(tag_byte)
    IN IF m = {} THEN [err |-> "", format |-> formats[1]]
       ELSE [err |-> "",
             format |-> formats[CHOOSE i \in m : \A j \in m : i <= j]]

\* get_format: the first descriptor that matches, or the failed assertion.
get_format(tag_byte) ==
    LET m == matching(tag_byte)
    IN IF m = {} THEN [err |-> "AssertionError: unknown tag", format |-> formats[1]]
       ELSE [err |-> "",
             format |-> formats[CHOOSE i \in m : \A j \in m : i <= j]]

\* A map length that counts pairs instead of items.
map_len_pairs(N) == N

map_len(N) == 2 * N

\* An extension length that leaves out the type byte.
ext_len_data_only(N) == N

ext_len(N) == N + 1

\* A reading of N that keeps the tag bits of the byte.
get_N_and_L_unmasked(format, tag_byte, N_buf) ==
    IF Len(N_buf) # format.N_size
    THEN [err |-> "AssertionError: N_buf", N |-> 0, L |-> 0]
    ELSE LET N == IF Len(N_buf) > 0 THEN from_bytes_unsigned(N_buf)
                  ELSE tag_byte
             L == IF format.L_const # <<>> THEN format.L_const[1]
                  ELSE IF format.L_fn = "map_len" THEN map_len(N)
                  ELSE IF format.L_fn = "ext_len" THEN ext_len(N)
                  ELSE N
         IN [err |-> "", N |-> N, L |-> L]

\* Format.get_N_and_L
get_N_and_L(format, tag_byte, N_buf) ==
    IF Len(N_buf) # format.N_size
    THEN [err |-> "AssertionError: N_buf", N |-> 0, L |-> 0]
    ELSE LET N == IF Len(N_buf) > 0 THEN from_bytes_unsigned(N_buf)
                  ELSE BitAnd(tag_byte, format.N_mask)
             L == IF format.L_const # <<>> THEN format.L_const[1]
                  ELSE IF format.L_fn = "map_len" THEN map_len(N)
                  ELSE IF format.L_fn = "ext_len" THEN ext_len(N)
                  ELSE N
         IN [err |-> "", N |-> N, L |-> L]

build_uint(buf) == Ok(PyInt(from_bytes_unsigned(buf)))

build_int(buf) == Ok(PyInt(from_bytes_signed(buf)))

\* struct.unpack('>f', buf)[0]: the sign, exponent and fraction fields of the
\* big-endian IEEE-754 single.
build_float(buf) ==
    IF Len(buf) # 4 THEN Raise("struct.error")
    ELSE Ok(PyFloat(<<buf[1] \div 128,
                      (buf[1] % 128) * 2 + buf[2] \div 128,
                      (buf[2] % 128) * 65536 + buf[3] * 256 + buf[4]>>))

\* struct.unpack('>d', buf)[0]: sign, exponent, and the 52 fraction bits as
\* 20 + 16 + 16.
build_double(buf) ==
    IF Len(buf) # 8 THEN Raise("struct.error")
    ELSE Ok(PyFloat(<<buf[1] \div 128,
                      (buf[1] % 128) * 16 + buf[2] \div 16,
                      (buf[2] % 16) * 65536 + buf[3] * 256 + buf[4],
                      buf[5] * 256 + buf[6],
                      buf[7] * 256 + buf[8]>>))

build_str(buf) == Utf8Decode(buf)

build_bin(buf) == Ok(PyBytes(buf))

build_array(items) == Ok(PyList(items))

\* The dict comprehension of build_map, pair by pair from pair i on.
RECURSIVE DictComprehension(_, _, _)
DictComprehension(items, i, acc) ==
    IF i >= Len(items) \div 2 THEN Ok(PyDict(acc))
    ELSE IF ~Hashable(items[2 * i + 1]) THEN Raise("TypeError: unhashable")
    ELSE DictComprehension(items, i + 1,
                           DictSet(acc, items[2 * i + 1], items[2 * i + 2]))

\* A comprehension in which the first occurrence of a key wins.
RECURSIVE FirstWins(_, _, _)
FirstWins(items, i, acc) ==
    IF i >= Len(items) \div 2 THEN Ok(PyDict(acc))
    ELSE IF \E j \in 1..(Len(acc) \div 2) : KeyEq(acc[2 * j - 1], items[2 * i + 1])
    THEN FirstWins(items, i + 1, acc)
    ELSE FirstWins(items, i + 1, acc \o <<items[2 * i + 1], items[2 * i + 2]>>)

build_map_first_wins(items) ==
    IF Len(items) % 2 # 0 THEN Raise("AssertionError: odd")
    ELSE FirstWins(items, 0, <<>>)

build_map(items) ==
    IF Len(items) % 2 # 0 THEN Raise("AssertionError: odd")
    ELSE DictComprehension(items, 0, <<>>)

build_ext(buf) ==
    IF buf = <<>> THEN Raise("IndexError")
    ELSE Ok(PyExt(buf[1], SubSeq(buf, 2, Len(buf))))

\* Format.build: the build_fn applied to N when L_const is 0, to the payload
\* otherwise.
build(format, N, payload) ==
    LET fn  == format.build_fn
        arg == IF format.L_const = <<0>> THEN N ELSE payload
    IN IF fn = "lambda _: None" THEN Ok(PyNone)
       ELSE IF fn = "lambda _: False" THEN Ok(PyBool(FALSE))
       ELSE IF fn = "lambda _: True" THEN Ok(PyBool(TRUE))
       ELSE IF fn = "lambda N: N" THEN Ok(PyInt(arg))
       ELSE IF fn = "lambda N: -N" THEN Ok(PyInt(0 - arg))
       ELSE IF fn = "build_uint" THEN build_uint(arg)
       ELSE IF fn = "build_int" THEN build_int(arg)
       ELSE IF fn = "build_float" THEN build_float(arg)
       ELSE IF fn = "build_double" THEN build_double(arg)
       ELSE IF fn = "build_str" THEN build_str(arg)
       ELSE IF fn = "build_bin" THEN build_bin(arg)
       ELSE IF fn = "build_array" THEN build_array(arg)
       ELSE IF fn = "build_map" THEN build_map(arg)
       ELSE build_ext(arg)

\* ------------------------------------- decoder.py: decoder_coroutine

\* The locals of one activation of decoder_coroutine. pc names the buffer of
\* the yield the activation is suspended at ("type_buf" line 262, "N_buf"
\* line 267, "payload" line 278) or is "yield from" (line 274) while a child
\* activation runs above it. The loop index i of line 273 is Len(payload).
\* tag_byte, format, N and L hold placeholders until their assignment.
NewFrame ==
    [pc |-> "type_buf", type_buf |-> <<>>, tag_byte |-> 0,
     format |-> formats[1], N_buf |-> <<>>, N |-> 0, L |-> 0,
     payload |-> <<>>]

\* A generator object: state is "created" (never entered), "suspended" (at a
\* yield, frames from the outermost activation to the innermost) or "closed"
\* (returned or raised).
NewGenerator == [state |-> "created", frames |-> <<>>]

Top(frames) == frames[Len(frames)]

Pop(frames) == SubSeq(frames, 1, Len(frames) - 1)

SetTop(frames, f) == [frames EXCEPT ![Len(frames)] = f]

\* What next() on the generator gives: a yielded capacity (the yielded buffer
\* is the one the top frame's pc names), StopIteration with a value, or an
\* exception leaving the generator.
Yielded(frames, capacity) ==
    [kind |-> "yield", frames |-> frames, capacity |-> capacity,
     value |-> PyNone, err |-> ""]

StopIteration(value) ==
    [kind |-> "stop", frames |-> <<>>, capacity |-> 0, value |-> value,
     err |-> ""]

Raised(err) ==
    [kind |-> "raise", frames |-> <<>>, capacity |-> 0, value |-> PyNone,
     err |-> err]

\* A container that puts each decoded object in front of the earlier ones.
append_obj_in_front(payload, obj) == <<obj>> \o payload

\* payload.append(obj), line 275
append_obj(payload, obj) == Append(payload, obj)

\* An activation returned obj (line 280) to the activations below it: the
\* parent appends it (line 275) and either starts the next child or builds
\* and returns in turn.
RECURSIVE coroutine_return(_, _)
coroutine_return(frames, obj) ==
    IF frames = <<>> THEN StopIteration(obj)
    ELSE LET f       == Top(frames)
             payload == append_obj(f.payload, obj)
         IN IF Len(payload) < f.L
            THEN Yielded(Append(SetTop(frames, [f EXCEPT !.payload = payload]),
                                NewFrame), 1)
            ELSE With(build(f.format, f.N, payload), LAMBDA built :
                   IF built.err # "" THEN Raised(built.err)
                   ELSE coroutine_return(Pop(frames), built.v))

\* Control re-enters the innermost activation after its yield.
decoder_coroutine(frames) ==
    LET f == Top(frames)
    IN IF f.pc = "type_buf"
       THEN IF f.type_buf = <<>> THEN Raised("IndexError")
            ELSE LET tag_byte == f.type_buf[1]
                     got      == get_format(tag_byte)
                 IN IF got.err # "" THEN Raised(got.err)
                    ELSE Yielded(SetTop(frames,
                                   [f EXCEPT !.pc = "N_buf",
                                             !.tag_byte = tag_byte,
                                             !.format = got.format]),
                                 got.format.N_size)
       ELSE IF f.pc = "N_buf"
       THEN LET nl == get_N_and_L(f.format, f.tag_byte, f.N_buf)
                g  == [f EXCEPT !.N = nl.N, !.L = nl.L]
            IN IF nl.err # "" THEN Raised(nl.err)
               ELSE IF ~f.format.holds_objects
               THEN Yielded(SetTop(frames, [g EXCEPT !.pc = "payload"]), nl.L)
               ELSE IF nl.L > 0
               THEN Yielded(Append(SetTop(frames, [g EXCEPT !.pc = "yield from"]),
                                   NewFrame), 1)
               ELSE With(build(f.format, nl.N, <<>>), LAMBDA built :
                      IF built.err # "" THEN Raised(built.err)
                      ELSE coroutine_return(Pop(frames), built.v))
       ELSE With(build(f.format, f.N, f.payload), LAMBDA built :
              IF built.err # "" THEN Raised(built.err)
              ELSE coroutine_return(Pop(frames), built.v))

\* next(self._iterator): a closed generator raises StopIteration without a
\* value, so stop.value is None.
next(iterator) ==
    IF iterator.state = "closed" THEN StopIteration(PyNone)
    ELSE IF iterator.state = "created" THEN Yielded(<<NewFrame>>, 1)
    ELSE decoder_coroutine(iterator.frames)

\* ---------------------------------------- decoder.py: SpilloverWriter

\* SpilloverWriter.__init__ over decoder_coroutine(), as Decoder() builds it.
\* _writer is "None" or names the yielded buffer of the innermost activation;
\* _capacity is <<>> for None. extended is not an attribute of the class: it
\* records every argument of self._writer.extend (line 240), in call order.
Decoder ==
    [full |-> FALSE, value |-> PyNone, _iterator |-> NewGenerator,
     _writer |-> "None", _capacity |-> <<>>, extended |-> <<>>]

\* A take that ignores the capacity of the current writer.
available_all(buf, bytes_written, capacity) ==
    Slice(buf, bytes_written, Len(buf))

\* line 239
available(buf, bytes_written, capacity) ==
    Slice(buf, bytes_written, bytes_written + capacity)

\* A loop that stops as soon as the input runs out.
writer_filled_and_input_left(capacity, buf, bytes_written) ==
    capacity = 0 /\ bytes_written < Len(buf)

\* A loop that also goes on when the input ran out before the writer is full.
writer_filled_or_input_out(capacity, buf, bytes_written) ==
    capacity = 0 \/ bytes_written >= Len(buf)

\* line 249: the current writer is full, so the loop goes on
writer_filled(capacity, buf, bytes_written) == capacity = 0

\* self._writer.extend(avail): the buffer lives in the innermost activation.
extend(frames, writer, avail) ==
    LET f == Top(frames)
    IN SetTop(frames,
              IF writer = "type_buf" THEN [f EXCEPT !.type_buf = @ \o avail]
              ELSE IF writer = "N_buf" THEN [f EXCEPT !.N_buf = @ \o avail]
              ELSE [f EXCEPT !.payload = @ \o avail])

\* Where a call of write ended: the writer after it, the value returned (-1
\* when it raised err), and the bytes put into buffers during the call.
Returned(w, bytes_written) ==
    [w |-> w, ret |-> bytes_written, err |-> "", taken |-> bytes_written]

Threw(w, err, bytes_written) ==
    [w |-> w, ret |-> 0 - 1, err |-> err, taken |-> bytes_written]

\* The state of a running call of write: self, the local bytes_written, and
\* how the loop was left ("" while it runs, "break", or the exception).
Running(self, bytes_written) ==
    [self |-> self, bytes_written |-> bytes_written, left |-> ""]

Left(self, bytes_written, how) ==
    [self |-> self, bytes_written |-> bytes_written, left |-> how]

\* Lines 239 to 253 of the loop: take what the current writer has room for,
\* go round again when that filled it, leave the loop otherwise.
write_take(self, bytes_written, buf) ==
    With(available(buf, bytes_written, self._capacity[1]), LAMBDA avail :
      LET capacity == self._capacity[1] - Len(avail)
          after == [self EXCEPT
                      !._iterator.frames = extend(@, self._writer, avail),
                      !._capacity = <<capacity>>,
                      !.extended = @ \o avail]
      IN IF writer_filled(capacity, buf, bytes_written + Len(avail))
         THEN Running([after EXCEPT !._writer = "None"],
                      bytes_written + Len(avail))
         ELSE Left(after, bytes_written + Len(avail), "break"))

\* An iteration whose StopIteration handler does not leave the loop.
write_iteration_without_break(st, buf) ==
    LET self == st.self
        bytes_written == st.bytes_written
    IN IF self._writer # "None" THEN write_take(self, bytes_written, buf)
       ELSE With(next(self._iterator), LAMBDA nx :
              IF nx.kind = "stop"
              THEN Running([self EXCEPT
                              !.full = TRUE, !.value = nx.value,
                              !._iterator = [state |-> "closed", frames |-> <<>>]],
                           bytes_written)
              ELSE IF nx.kind = "raise"
              THEN Left([self EXCEPT
                           !._iterator = [state |-> "closed", frames |-> <<>>]],
                        bytes_written, nx.err)
              ELSE write_take([self EXCEPT
                                 !._iterator = [state |-> "suspended",
                                                frames |-> nx.frames],
                                 !._writer = Top(nx.frames).pc,
                                 !._capacity = <<nx.capacity>>],
                              bytes_written, buf))

\* One iteration of the while True loop of SpilloverWriter.write.
write_iteration(st, buf) ==
    LET self == st.self
        bytes_written == st.bytes_written
    IN IF self._writer # "None" THEN write_take(self, bytes_written, buf)
       ELSE With(next(self._iterator), LAMBDA nx :
              IF nx.kind = "stop"
              THEN Left([self EXCEPT
                           !.full = TRUE, !.value = nx.value,
                           !._iterator = [state |-> "closed", frames |-> <<>>]],
                        bytes_written, "break")
              ELSE IF nx.kind = "raise"
              THEN Left([self EXCEPT
                           !._iterator = [state |-> "closed", frames |-> <<>>]],
                        bytes_written, nx.err)
              ELSE write_take([self EXCEPT
                                 !._iterator = [state |-> "suspended",
                                                frames |-> nx.frames],
                                 !._writer = Top(nx.frames).pc,
                                 !._capacity = <<nx.capacity>>],
                              bytes_written, buf))

\* At most `fuel` iterations of the loop, stopping where the loop is left.
\* The iterations are split in halves to keep the evaluation shallow.
RECURSIVE write_loop(_, _, _)
write_loop(st, buf, fuel) ==
    IF fuel <= 1 THEN write_iteration(st, buf)
    ELSE With(write_loop(st, buf, fuel \div 2), LAMBDA mid :
           IF mid.left # "" THEN mid
           ELSE write_loop(mid, buf, fuel - fuel \div 2))

\* An iteration takes a byte or moves the generator to its next yield, and
\* an encoded value has fewer than three yields per byte: this many
\* iterations are run before the call is reported as not returning.
write_fuel(buf) == 3 * Len(buf) + 4

\* SpilloverWriter.write
write(self, buf) ==
    With(write_loop(Running(self, 0), buf, write_fuel(buf)), LAMBDA end :
      IF end.left = "break" THEN Returned(end.self, end.bytes_written)
      ELSE IF end.left = "" THEN Threw(end.self, "no return", end.bytes_written)
      ELSE Threw(end.self, end.left, end.bytes_written))

\* ------------------------------------------- mpinc.py: MessagePackTypes

\* make_type (line 189): the class it returns, as the values it closes over.
make_type(tag, name, builder_fn, size_len, tag_bits, is_container, size_fn) ==
    LET tag_mask == (255 * Pow2(8 - tag_bits)) % 256
    IN [tag |-> tag, name |-> name, builder_fn |-> builder_fn,
        size_len |-> size_len, tag_mask |-> tag_mask,
        size_mask |-> BitXor(255, tag_mask), is_container |-> is_container,
        size_fn |-> size_fn]

\* The list of line 276, the defaults of make_type (size_len=0, tag_bits=8,
\* is_container=False, size_fn=lambda x: x) written out.
MessagePackTypes == <<
    make_type(0, "positive fixint", "build_return_N", 0, 1, FALSE, "size_const(0)"),
    make_type(128, "fixmap", "build_map", 0, 4, TRUE, "size_map"),
    make_type(144, "fixarray", "build_tuple", 0, 4, TRUE, "x"),
    make_type(160, "fixstr", "build_str", 0, 3, FALSE, "x"),
    make_type(192, "nil", "build_const(None)", 0, 8, FALSE, "size_const(0)"),
    make_type(194, "false", "build_const(False)", 0, 8, FALSE, "size_const(0)"),
    make_type(195, "true", "build_const(True)", 0, 8, FALSE, "size_const(0)"),
    make_type(196, "bin8", "build_bytes", 1, 8, FALSE, "x"),
    make_type(197, "bin16", "build_bytes", 2, 8, FALSE, "x"),
    make_type(198, "bin32", "build_bytes", 4, 8, FALSE, "x"),
    make_type(199, "ext8", "build_ext", 1, 8, FALSE, "size_ext"),
    make_type(200, "ext16", "build_ext", 2, 8, FALSE, "size_ext"),
    make_type(201, "ext32", "build_ext", 4, 8, FALSE, "size_ext"),
    make_type(220, "array16", "build_tuple", 2, 8, TRUE, "x") >>

\* Type.matches_tag
matches_tag(T, byte) == BitAnd(T.tag_mask, byte) = T.tag

\* For every byte, the types of the list that match it.
matchingTypes ==
    [b \in 0..255 |->
       {i \in DOMAIN MessagePackTypes : matches_tag(MessagePackTypes[i], b)}]

size_map(N) == 2 * N

size_ext(N) == N + 1

\* Type.get_N, of an instance [T, tag_byte]
get_N(type, size_buffer) ==
    IF type.T.size_len = 0 THEN BitAnd(type.T.size_mask, type.tag_byte)
    ELSE from_bytes_unsigned(size_buffer)

\* Type.size
size(type, size_buffer) ==
    LET N == get_N(type, size_buffer)
    IN IF type.T.size_fn = "size_const(0)" THEN 0
       ELSE IF type.T.size_fn = "size_map" THEN size_map(N)
       ELSE IF type.T.size_fn = "size_ext" THEN size_ext(N)
       ELSE N

\* build_map of line 268: the dict comprehension, without the assertion.
mpinc_build_map(N, payload) == DictComprehension(payload, 0, <<>>)

\* build_ext of line 272
mpinc_build_ext(N, payload) ==
    IF payload = <<>> THEN Raise("IndexError")
    ELSE Ok(PyExt(payload[1], SubSeq(payload, 2, Len(payload))))

\* Type.build: builder_fn(N, payload)
mpinc_build(type, size_buffer, payload) ==
    LET N  == get_N(type, size_buffer)
        fn == type.T.builder_fn
    IN IF fn = "build_return_N" THEN Ok(PyInt(N))
       ELSE IF fn = "build_const(None)" THEN Ok(PyNone)
       ELSE IF fn = "build_const(False)" THEN Ok(PyBool(FALSE))
       ELSE IF fn = "build_const(True)" THEN Ok(PyBool(TRUE))
       ELSE IF fn = "build_bytes" THEN Ok(PyBytes(payload))
       ELSE IF fn = "build_tuple" THEN Ok(PyTuple(payload))
       ELSE IF fn = "build_str" THEN Utf8Decode(payload)
       ELSE IF fn = "build_map" THEN mpinc_build_map(N, payload)
       ELSE mpinc_build_ext(N, payload)

\* ----------------------------------------------------- mpinc.py: Decoder

\* Decoder.__init__: None is <<>>, a set _type, _size or _child_decoder is a
\* one-element sequence.
mpinc_Decoder ==
    [has_value |-> FALSE, value |-> PyNone, _size_buffer |-> <<>>,
     _type |-> <<>>, _size |-> <<>>, _payload_buffer |-> <<>>,
     _payload_list |-> <<>>, _child_decoder |-> <<>>]

\* What a method of Decoder did: the decoder after it, the bytes used, and
\* the exception it raised ("" when it returned used; used is then the count
\* of bytes taken into the decoder before the raise).
Used(self, used) == [self |-> self, used |-> used, err |-> ""]

Failed(self, used, err) == [self |-> self, used |-> used, err |-> err]

\* A _read_type that resolves the tag on every call, also when _type is set.
_read_type_on_every_call(self, buf, buf_start) ==
    IF buf_start >= Len(buf) THEN Failed(self, 0, "IndexError")
    ELSE LET tag_byte == buf[buf_start + 1]
             m == matchingTypes[tag_byte]
         IN IF m = {} THEN Failed(self, 0, "TypeError: unknown tag")
            ELSE Used([self EXCEPT !._type =
                         <<[T |-> MessagePackTypes[CHOOSE i \in m : \A j \in m : i <= j],
                            tag_byte |-> tag_byte]>>], 1)

\* Decoder._read_type
_read_type(self, buf, buf_start) ==
    IF self._type # <<>> THEN Used(self, 0)
    ELSE IF buf_start >= Len(buf) THEN Failed(self, 0, "IndexError")
    ELSE LET tag_byte == buf[buf_start + 1]
             m == matchingTypes[tag_byte]
         IN IF m = {} THEN Failed(self, 0, "TypeError: unknown tag")
            ELSE Used([self EXCEPT !._type =
                         <<[T |-> MessagePackTypes[CHOOSE i \in m : \A j \in m : i <= j],
                            tag_byte |-> tag_byte]>>], 1)

\* Decoder._try_read_size
_try_read_size(self, buf, buf_start) ==
    IF self._size # <<>> THEN Used(self, 0)
    ELSE LET bytes_needed == self._type[1].T.size_len - Len(self._size_buffer)
             bytes_to_use == Slice(buf, buf_start, buf_start + bytes_needed)
             size_buffer  == self._size_buffer \o bytes_to_use
         IN Used([self EXCEPT
                    !._size_buffer = size_buffer,
                    !._size = IF Len(size_buffer) = self._type[1].T.size_len
                              THEN <<size(self._type[1], size_buffer)>>
                              ELSE <<>>],
                 Len(bytes_to_use))

\* Decoder._write_into_bytes: has_value is set before build is called.
_write_into_bytes(self, buf, buf_start) ==
    LET bytes_needed == self._size[1] - Len(self._payload_buffer)
        bytes_to_use == Slice(buf, buf_start, buf_start + bytes_needed)
        payload      == self._payload_buffer \o bytes_to_use
        took         == [self EXCEPT !._payload_buffer = payload]
    IN IF Len(payload) # self._size[1] THEN Used(took, Len(bytes_to_use))
       ELSE With(mpinc_build(self._type[1], self._size_buffer, payload),
                 LAMBDA built :
              IF built.err # ""
              THEN Failed([took EXCEPT !.has_value = TRUE], Len(bytes_to_use),
                          built.err)
              ELSE Used([took EXCEPT !.has_value = TRUE, !.value = built.v],
                        Len(bytes_to_use)))

RECURSIVE mpinc_write(_, _, _)

\* One pass through the while loop of Decoder._write_into_container, from
\* its condition: st is the decoder, the local used, and how the loop was
\* left ("" while it runs, "break", "else", or the exception).
container_iteration(st, buf, buf_start) ==
    LET self == st.self
        used == st.used
    IN IF Len(self._payload_list) < self._size[1]
       THEN IF Len(buf) <= buf_start + used
            THEN [st EXCEPT !.left = "break"]
            ELSE LET child == IF self._child_decoder = <<>> THEN mpinc_Decoder
                              ELSE self._child_decoder[1]
                 IN With(mpinc_write(child, buf, buf_start + used), LAMBDA r :
                      IF r.err # ""
                      THEN [self |-> [self EXCEPT !._child_decoder = <<r.self>>],
                            used |-> used + r.used, left |-> r.err]
                      ELSE IF r.self.has_value
                      THEN [self |-> [self EXCEPT
                                        !._payload_list = Append(@, r.self.value),
                                        !._child_decoder = <<>>],
                            used |-> used + r.used, left |-> ""]
                      ELSE [self |-> [self EXCEPT !._child_decoder = <<r.self>>],
                            used |-> used + r.used, left |-> ""])
       ELSE With(mpinc_build(self._type[1], self._size_buffer,
                             self._payload_list), LAMBDA built :
              IF built.err # ""
              THEN [self |-> [self EXCEPT !.has_value = TRUE],
                    used |-> used, left |-> built.err]
              ELSE [self |-> [self EXCEPT !.has_value = TRUE,
                                          !.value = built.v],
                    used |-> used, left |-> "else"])

\* At most `fuel` passes, split in halves to keep the evaluation shallow.
RECURSIVE container_loop(_, _, _, _)
container_loop(st, buf, buf_start, fuel) ==
    IF fuel <= 1 THEN container_iteration(st, buf, buf_start)
    ELSE With(container_loop(st, buf, buf_start, fuel \div 2), LAMBDA mid :
           IF mid.left # "" THEN mid
           ELSE container_loop(mid, buf, buf_start, fuel - fuel \div 2))

\* A pass that does not leave the loop has given the child at least the
\* byte of its tag: this many passes are run before the call is reported as
\* not returning.
container_fuel(buf) == Len(buf) + 2

\* Decoder._write_into_container
_write_into_container(self, buf, buf_start) ==
    With(container_loop([self |-> self, used |-> 0, left |-> ""],
                        buf, buf_start, container_fuel(buf)), LAMBDA end :
      IF end.left \in {"break", "else"} THEN Used(end.self, end.used)
      ELSE IF end.left = "" THEN Failed(end.self, end.used, "no return")
      ELSE Failed(end.self, end.used, end.left))

\* A write without the test of line 310 for an empty buffer.
mpinc_write_of_empty_buffer(self, buf, buf_start) ==
    IF self.has_value THEN Used(self, 0)
    ELSE With(_read_type(self, buf, buf_start), LAMBDA t :
           IF t.err # "" THEN t
           ELSE With(_try_read_size(t.self, buf, buf_start + t.used), LAMBDA z :
             IF z.self._size = <<>> THEN Used(z.self, t.used + z.used)
             ELSE With(IF z.self._type[1].T.is_container
                       THEN _write_into_container(z.self, buf,
                                                  buf_start + t.used + z.used)
                       ELSE _write_into_bytes(z.self, buf,
                                              buf_start + t.used + z.used),
                       LAMBDA p : [p EXCEPT !.used = t.used + z.used + @])))

\* Decoder.write
mpinc_write(self, buf, buf_start) ==
    IF Len(buf) = 0 \/ self.has_value THEN Used(self, 0)
    ELSE With(_read_type(self, buf, buf_start), LAMBDA t :
           IF t.err # "" THEN t
           ELSE With(_try_read_size(t.self, buf, buf_start + t.used), LAMBDA z :
             IF z.self._size = <<>> THEN Used(z.self, t.used + z.used)
             ELSE With(IF z.self._type[1].T.is_container
                       THEN _write_into_container(z.self, buf,
                                                  buf_start + t.used + z.used)
                       ELSE _write_into_bytes(z.self, buf,
                                              buf_start + t.used + z.used),
                       LAMBDA p : [p EXCEPT !.used = t.used + z.used + @])))

\* ------------------- decoder_with_generators.py: MessagePackDecoder

\* io.BytesIO(buf): the bytes and the read position.
BytesIO(buf) == [buf |-> buf, pos |-> 0]

\* bytesio.read(nbytes): the bytes read and the reader after it; a negative
\* count reads to the end.
BytesIO_read(bytesio, nbytes) ==
    LET data == IF nbytes < 0 THEN Slice(bytesio.buf, bytesio.pos, Len(bytesio.buf))
                ELSE Slice(bytesio.buf, bytesio.pos, bytesio.pos + nbytes)
    IN [data |-> data, bytesio |-> [bytesio EXCEPT !.pos = @ + Len(data)]]

\* A default reader that comes with a byte in it.
default_BytesIO_with_a_byte == BytesIO(<<1>>)

\* The default argument bytesio=io.BytesIO() of MessagePackDecoder.fill
\* (line 62): one object, made when the function is defined and handed to
\* every call of fill() without an argument.
default_BytesIO == BytesIO(<<>>)

\* DelegatableBuffer.__init__
DelegatableBuffer(nbytes) == [buffer |-> <<>>, size |-> nbytes]

\* One pass of the loop of DelegatableBuffer.fill (lines 33 to 39): the
\* buffer and the reader after it, and whether the pass ends at the yield
\* (line 37) or returns the reader (line 39).
DelegatableBuffer_fill(self, bytesio) ==
    LET needed == self.size - Len(self.buffer)
    IN With(BytesIO_read(bytesio, needed), LAMBDA rd :
         [self |-> [self EXCEPT !.buffer = @ \o rd.data],
          bytesio |-> rd.bytesio,
          yields |-> Len(rd.data) < needed])

\* The locals of one activation of MessagePackDecoder.fill. pc names the
\* DelegatableBuffer whose fill the activation delegates to ("tag_buf" line
\* 64, "N_buf" line 68, "payload_buf" line 80) or is "subdecoder" (line 75)
\* while the activation of a subdecoder's fill runs above it.
NewFill ==
    [pc |-> "tag_buf", tag_buf |-> DelegatableBuffer(1), tag_byte |-> 0,
     format |-> formats[1], N_buf |-> DelegatableBuffer(0), N |-> 0, L |-> 0,
     payload_list |-> <<>>, payload_buf |-> DelegatableBuffer(0)]

\* A running generator of fill: its activations, the reader its local
\* bytesio refers to, the default reader (own: the local bytesio is that
\* default reader itself), how the run was left ("" while it runs, "yield",
\* "stop", or the exception), and the _result set at line 77 or 81 of the
\* outermost activation (<<>> before).
Filling(frames, bytesio, default, own) ==
    [frames |-> frames, bytesio |-> bytesio, default |-> default, own |-> own,
     left |-> "", result |-> <<>>]

\* The default reader as the run has left it, and the run after a
\* constructor call left it as d.
DefaultOf(st) == IF st.own THEN st.bytesio ELSE st.default

SetDefault(st, d) ==
    IF st.own THEN [st EXCEPT !.bytesio = d] ELSE [st EXCEPT !.default = d]

RECURSIVE MessagePackDecoder(_)
RECURSIVE fill_return(_, _)

\* The while loop of line 73 in the innermost activation: construct the next
\* subdecoder and delegate to its fill, or build the container (line 77).
fill_payload_list(st) ==
    LET f == Top(st.frames)
    IN IF Len(f.payload_list) < f.L
       THEN With(MessagePackDecoder(DefaultOf(st)), LAMBDA subdecoder :
              IF subdecoder.err # ""
              THEN [SetDefault(st, subdecoder.default) EXCEPT
                      !.left = subdecoder.err]
              ELSE [SetDefault(st, subdecoder.default) EXCEPT
                      !.frames = Append(SetTop(@, [f EXCEPT !.pc = "subdecoder"]),
                                        NewFill)])
       ELSE With(build(f.format, f.N, f.payload_list), LAMBDA built :
              IF built.err # "" THEN [st EXCEPT !.left = built.err]
              ELSE fill_return(st, built.v))

\* The innermost activation set _result to obj and _full, and returned
\* (lines 82): the generator stops, or the activation below appends the
\* subdecoder's result() (line 76) and goes round its while loop.
fill_return(st, obj) ==
    With(Pop(st.frames), LAMBDA frames :
      IF frames = <<>>
      THEN [st EXCEPT !.frames = <<>>, !.left = "stop", !.result = <<obj>>]
      ELSE With([st EXCEPT !.frames =
                   SetTop(frames, [Top(frames) EXCEPT
                                     !.payload_list = Append(@, obj)])],
                LAMBDA back : fill_payload_list(back)))

\* MessagePackDecoder.fill from one delegation to a DelegatableBuffer.fill to
\* the next: a pass of that buffer's loop and, when the buffer is full, the
\* lines of fill that follow it.
fill_pass(st) ==
    LET f == Top(st.frames)
    IN IF f.pc = "tag_buf"
       THEN With(DelegatableBuffer_fill(f.tag_buf, st.bytesio), LAMBDA d :
              IF d.yields
              THEN [st EXCEPT !.frames = SetTop(@, [f EXCEPT !.tag_buf = d.self]),
                              !.bytesio = d.bytesio, !.left = "yield"]
              ELSE IF d.self.buffer = <<>>
              THEN [st EXCEPT !.bytesio = d.bytesio, !.left = "IndexError"]
              ELSE With(get_format(d.self.buffer[1]), LAMBDA got :
                     IF got.err # ""
                     THEN [st EXCEPT !.bytesio = d.bytesio, !.left = got.err]
                     ELSE [st EXCEPT
                             !.frames = SetTop(@, [f EXCEPT
                                !.pc = "N_buf", !.tag_buf = d.self,
                                !.tag_byte = d.self.buffer[1],
                                !.format = got.format,
                                !.N_buf = DelegatableBuffer(got.format.N_size)]),
                             !.bytesio = d.bytesio]))
       ELSE IF f.pc = "N_buf"
       THEN With(DelegatableBuffer_fill(f.N_buf, st.bytesio), LAMBDA d :
              IF d.yields
              THEN [st EXCEPT !.frames = SetTop(@, [f EXCEPT !.N_buf = d.self]),
                              !.bytesio = d.bytesio, !.left = "yield"]
              ELSE With(get_N_and_L(f.format, f.tag_byte, d.self.buffer),
                        LAMBDA nl :
                     IF nl.err # ""
                     THEN [st EXCEPT !.bytesio = d.bytesio, !.left = nl.err]
                     ELSE IF f.format.holds_objects
                     THEN With([st EXCEPT
                                  !.frames = SetTop(@, [f EXCEPT
                                     !.N_buf = d.self, !.N = nl.N, !.L = nl.L,
                                     !.payload_list = <<>>]),
                                  !.bytesio = d.bytesio],
                               LAMBDA held : fill_payload_list(held))
                     ELSE [st EXCEPT
                             !.frames = SetTop(@, [f EXCEPT
                                !.pc = "payload_buf", !.N_buf = d.self,
                                !.N = nl.N, !.L = nl.L,
                                !.payload_buf = DelegatableBuffer(nl.L)]),
                             !.bytesio = d.bytesio]))
       ELSE With(DelegatableBuffer_fill(f.payload_buf, st.bytesio), LAMBDA d :
              IF d.yields
              THEN [st EXCEPT !.frames = SetTop(@, [f EXCEPT !.payload_buf = d.self]),
                              !.bytesio = d.bytesio, !.left = "yield"]
              ELSE With(build(f.format, f.N, d.self.buffer), LAMBDA built :
                     IF built.err # ""
                     THEN [st EXCEPT !.bytesio = d.bytesio, !.left = built.err]
                     ELSE With([st EXCEPT
                                  !.frames = SetTop(@, [f EXCEPT
                                     !.payload_buf = d.self]),
                                  !.bytesio = d.bytesio],
                               LAMBDA filled : fill_return(filled, built.v))))

\* At most `fuel` passes, stopping where the run is left; split in halves to
\* keep the evaluation shallow.
RECURSIVE fill_run(_, _)
fill_run(st, fuel) ==
    IF fuel <= 1 THEN fill_pass(st)
    ELSE With(fill_run(st, fuel \div 2), LAMBDA mid :
           IF mid.left # "" THEN mid
           ELSE fill_run(mid, fuel - fuel \div 2))

\* A pass fills a buffer or ends at a yield, and a value has three buffers
\* and at least one byte: this many passes are run before the run is
\* reported as not returning.
fill_fuel(bytesio) == 3 * Len(bytesio.buf) + 4

\* MessagePackDecoder.__init__ with the default reader as it is: the new
\* decoder, the default reader after next(self._generator) ran fill() on it,
\* and the exception leaving the constructor ("" when it returned).
MessagePackDecoder(default) ==
    With(fill_run(Filling(<<NewFill>>, default, default, TRUE),
                  fill_fuel(default)), LAMBDA end :
      [self |-> [_full |-> FALSE, _result |-> PyNone,
                 _generator |-> [state |-> IF end.left = "yield"
                                           THEN "suspended" ELSE "closed",
                                 frames |-> end.frames]],
       default |-> end.bytesio,
       err |-> IF end.left = "yield" THEN ""
               ELSE IF end.left = "stop" THEN "StopIteration"
               ELSE IF end.left = "" THEN "no return"
               ELSE end.left])

\* MessagePackDecoder.write: the decoder and the default reader after the
\* call, bytesio.tell() (-1 when the call raised err), and the bytes read
\* from buf during the call.
MessagePackDecoder_write(self, buf, default) ==
    IF self._generator.state = "closed"
    THEN [self |-> self, default |-> default, ret |-> 0, err |-> "", taken |-> 0]
    ELSE With(fill_run(Filling(self._generator.frames, BytesIO(buf), default,
                               FALSE),
                       fill_fuel(BytesIO(buf))), LAMBDA end :
           IF end.left = "yield"
           THEN [self |-> [self EXCEPT !._generator.frames = end.frames],
                 default |-> end.default, ret |-> end.bytesio.pos, err |-> "",
                 taken |-> end.bytesio.pos]
           ELSE IF end.left = "stop"
           THEN [self |-> [_full |-> TRUE, _result |-> end.result[1],
                           _generator |-> [state |-> "closed", frames |-> <<>>]],
                 default |-> end.default, ret |-> end.bytesio.pos, err |-> "",
                 taken |-> end.bytesio.pos]
           ELSE [self |-> [self EXCEPT
                             !._generator = [state |-> "closed", frames |-> <<>>]],
                 default |-> end.default, ret |-> 0 - 1,
                 err |-> IF end.left = "" THEN "no return" ELSE end.left,
                 taken |-> end.bytesio.pos])

\* MessagePackDecoder.full and MessagePackDecoder.result
full(self) == self._full

result(self) == Ok(self._result)

\* ------------------------------------------------------- the byte streams

\* The streams delivered to the decoders are built from test vectors in the
\* manner of the tests list of decoder.py: an encoding e with the value v it
\* encodes. fam is the wire format family of the first byte, n the count
\* field of a container, hdr the length of tag plus length field, items and
\* lens the values and encoded lengths of a container's elements. valid says
\* that e is an encoding of the wire format: no reserved tag, and every
\* string payload UTF-8.
\* badDec / badMp is the 1-based place in e of the first byte at a tag
\* position that decoder.py's formats / mpinc.py's MessagePackTypes do not
\* register, 0 when every tag is registered.

MaxDepth == 2

MaxCount == 3

MaxPairs == 2

\* The caller gives up on a decoder after this many of its write calls raised.
MaxFailedCalls == 2

Leaf(e, v, fam, inDec, inMp) ==
    [e |-> e, v |-> v, fam |-> fam, valid |-> fam # "reserved", n |-> 0,
     hdr |-> Len(e), items |-> <<>>, lens |-> <<>>,
     badDec |-> IF inDec THEN 0 ELSE 1, badMp |-> IF inMp THEN 0 ELSE 1]

Rep(b, n) == [i \in 1..n |-> b]

Leaves == {
    Leaf(<<0>>, PyInt(0), "positive fixint", TRUE, TRUE),
    Leaf(<<1>>, PyInt(1), "positive fixint", TRUE, TRUE),
    Leaf(<<127>>, PyInt(127), "positive fixint", TRUE, TRUE),
    Leaf(<<224>>, PyInt(0), "negative fixint", TRUE, FALSE),
    Leaf(<<255>>, PyInt(0 - 31), "negative fixint", TRUE, FALSE),
    Leaf(<<192>>, PyNone, "nil", TRUE, TRUE),
    Leaf(<<194>>, PyBool(FALSE), "false", TRUE, TRUE),
    Leaf(<<195>>, PyBool(TRUE), "true", TRUE, TRUE),
    Leaf(<<204, 128>>, PyInt(128), "uint8", TRUE, FALSE),
    Leaf(<<205, 1, 0>>, PyInt(256), "uint16", TRUE, FALSE),
    Leaf(<<206, 0, 1, 0, 0>>, PyInt(65536), "uint32", TRUE, FALSE),
    Leaf(<<207>> \o Rep(0, 7) \o <<1>>, PyInt(1), "uint64", TRUE, FALSE),
    Leaf(<<208, 255>>, PyInt(0 - 1), "int8", FALSE, FALSE),
    Leaf(<<209, 255, 254>>, PyInt(0 - 2), "int16", FALSE, FALSE),
    Leaf(<<210, 255, 255, 255, 253>>, PyInt(0 - 3), "int32", FALSE, FALSE),
    Leaf(<<211>> \o Rep(255, 7) \o <<252>>, PyInt(0 - 4), "int64", FALSE, FALSE),
    Leaf(<<208, 5>>, PyInt(5), "int8", FALSE, FALSE),
    Leaf(<<202, 63, 128, 0, 0>>, PyFloat(<<0, 127, 0>>), "float32", TRUE, FALSE),
    Leaf(<<203, 64, 22>> \o Rep(0, 6), PyFloat(<<0, 1025, 393216, 0, 0>>),
         "float64", TRUE, FALSE),
    Leaf(<<160>>, PyStr(<<>>), "fixstr", TRUE, TRUE),
    Leaf(<<161, 97>>, PyStr(<<97>>), "fixstr", TRUE, TRUE),
    Leaf(<<163, 102, 111, 111>>, PyStr(<<102, 111, 111>>), "fixstr", TRUE, TRUE),
    Leaf(<<162, 195, 169>>, PyStr(<<233>>), "fixstr", TRUE, TRUE),
    Leaf(<<217, 1, 97>>, PyStr(<<97>>), "str8", TRUE, FALSE),
    Leaf(<<218, 0, 1, 97>>, PyStr(<<97>>), "str16", TRUE, FALSE),
    Leaf(<<219, 0, 0, 0, 1, 97>>, PyStr(<<97>>), "str32", TRUE, FALSE),
    Leaf(<<196, 0>>, PyBytes(<<>>), "bin8", TRUE, TRUE),
    Leaf(<<196, 1, 49>>, PyBytes(<<49>>), "bin8", TRUE, TRUE),
    Leaf(<<197, 0, 1, 65>>, PyBytes(<<65>>), "bin16", TRUE, TRUE),
    Leaf(<<198, 0, 0, 0, 1, 65>>, PyBytes(<<65>>), "bin32", TRUE, TRUE),
    Leaf(<<199, 0, 5>>, PyExt(5, <<>>), "ext8", TRUE, TRUE),
    Leaf(<<199, 1, 5, 170>>, PyExt(5, <<170>>), "ext8", TRUE, TRUE),
    Leaf(<<200, 0, 1, 5, 170>>, PyExt(5, <<170>>), "ext16", TRUE, TRUE),
    Leaf(<<201, 0, 0, 0, 1, 5, 170>>, PyExt(5, <<170>>), "ext32", TRUE, TRUE),
    Leaf(<<212, 5, 170>>, PyExt(5, <<170>>), "fixext1", TRUE, FALSE),
    Leaf(<<213, 5, 170, 187>>, PyExt(5, <<170, 187>>), "fixext2", TRUE, FALSE),
    Leaf(<<214, 5>> \o Rep(170, 4), PyExt(5, Rep(170, 4)), "fixext4", TRUE, FALSE),
    Leaf(<<215, 5>> \o Rep(170, 8), PyExt(5, Rep(170, 8)), "fixext8", TRUE, FALSE),
    Leaf(<<216, 5>> \o Rep(170, 16), PyExt(5, Rep(170, 16)), "fixext16", TRUE, FALSE),
    Leaf(<<193>>, PyNone, "reserved", FALSE, FALSE),
    Leaf(<<193, 1>>, PyNone, "reserved", FALSE, FALSE) }

One == Leaf(<<1>>, PyInt(1), "positive fixint", TRUE, TRUE)

StrA == Leaf(<<161, 97>>, PyStr(<<97>>), "fixstr", TRUE, TRUE)

EmptyBin == Leaf(<<196, 0>>, PyBytes(<<>>), "bin8", TRUE, TRUE)

Reserved == Leaf(<<193>>, PyNone, "reserved", FALSE, FALSE)

RECURSIVE Concat(_)
Concat(seqs) ==
    IF seqs = <<>> THEN <<>> ELSE seqs[1] \o Concat(SubSeq(seqs, 2, Len(seqs)))

RECURSIVE Sum(_)
Sum(ns) == IF ns = <<>> THEN 0 ELSE ns[1] + Sum(SubSeq(ns, 2, Len(ns)))

IsArray(fam) == fam \in {"fixarray", "array16", "array32"}

IsMap(fam) == fam \in {"fixmap", "map16", "map32"}

\* The tag and count field of a container of the wire format table.
Header(fam, n) ==
    IF fam = "fixarray" THEN <<144 + n>>
    ELSE IF fam = "fixmap" THEN <<128 + n>>
    ELSE IF fam = "array16" THEN <<220, n \div 256, n % 256>>
    ELSE IF fam = "map16" THEN <<222, n \div 256, n % 256>>
    ELSE IF fam = "array32" THEN <<221, 0, 0, n \div 256, n % 256>>
    ELSE <<223, 0, 0, n \div 256, n % 256>>

\* The value of a map given as key, value, key, value, ...: the keys in the
\* order of their first occurrence, each with the value of its last one.
LastWins(items) ==
    LET N       == Len(items) \div 2
        key(i)  == items[2 * i - 1]
        firsts  == {i \in 1..N : \A j \in 1..(i - 1) : ~KeyEq(key(j), key(i))}
        last(i) == CHOOSE j \in 1..N :
                     /\ KeyEq(key(j), key(i))
                     /\ \A h \in (j + 1)..N : ~KeyEq(key(h), key(i))
        RECURSIVE Build(_)
        Build(i) == IF i > N THEN <<>>
                    ELSE IF i \in firsts
                    THEN <<key(i), items[2 * last(i)]>> \o Build(i + 1)
                    ELSE Build(i + 1)
    IN PyDict(Build(1))

\* A container of family fam holding the vectors kids (for a map: key, value,
\* key, value, ...).
Container(fam, kids) ==
    LET n     == IF IsMap(fam) THEN Len(kids) \div 2 ELSE Len(kids)
        hdr   == Header(fam, n)
        lens  == [i \in 1..Len(kids) |-> Len(kids[i].e)]
        items == [i \in 1..Len(kids) |-> kids[i].v]
        before(i) == Len(hdr) + Sum(SubSeq(lens, 1, i - 1))
        bad(f(_)) == LET B == {i \in 1..Len(kids) : f(kids[i]) > 0}
                     IN IF B = {} THEN 0
                        ELSE LET i == CHOOSE i \in B : \A j \in B : i <= j
                             IN before(i) + f(kids[i])
        dec(kid) == kid.badDec
        mpc(kid) == kid.badMp
    IN [e |-> hdr \o Concat([i \in 1..Len(kids) |-> kids[i].e]),
        v |-> IF IsMap(fam) THEN LastWins(items) ELSE PyList(items),
        fam |-> fam, valid |-> \A i \in 1..Len(kids) : kids[i].valid,
        n |-> n, hdr |-> Len(hdr), items |-> items, lens |-> lens,
        badDec |-> bad(dec),
        badMp |-> IF fam \in {"fixarray", "fixmap", "array16"} THEN bad(mpc)
                  ELSE 1]

\* Nested containers of depth at most d, used as elements.
RECURSIVE Nested(_)
Nested(d) ==
    IF d = 0 THEN <<>>
    ELSE LET inner == <<One>> \o Nested(d - 1)
         IN <<Container("fixarray", <<>>), Container("fixmap", <<>>)>>
            \o [i \in 1..Len(inner) |-> Container("fixarray", <<inner[i]>>)]
            \o [i \in 1..Len(inner) |-> Container("fixmap", <<StrA, inner[i]>>)]

\* The elements containers are filled from, taken in rotation.
Pool == <<One, StrA, EmptyBin>> \o Nested(MaxDepth - 1)

Rot(r, i) == Pool[((r + i - 2) % Len(Pool)) + 1]

\* The key of pair i: always One, or One and StrA in turn.
KeyOf(pattern, i) == IF pattern = "same" \/ i % 2 = 1 THEN One ELSE StrA

\* Containers with the count in the tag are filled from every place of the
\* pool, those with a 16 or 32 bit count from its first place.
Starts(fam) == IF fam \in {"fixarray", "fixmap"} THEN 1..Len(Pool) ELSE {1}

Arrays ==
    UNION {{Container(fam, [i \in 1..n |-> Rot(r, i)]) :
              n \in 0..MaxCount, r \in Starts(fam)} :
           fam \in {"fixarray", "array16", "array32"}}

Maps ==
    UNION {{Container(fam, [i \in 1..(2 * n) |->
                              IF i % 2 = 1 THEN KeyOf(pattern, (i + 1) \div 2)
                              ELSE Rot(r, i \div 2)]) :
              n \in 0..MaxPairs, r \in Starts(fam), pattern \in {"same", "alt"}} :
           fam \in {"fixmap", "map16", "map32"}}

\* The container tests of decoder.py (lines 296, 297, 299) and containers
\* with a reserved byte at the place of an element's tag.
Three == Leaf(<<3>>, PyInt(3), "positive fixint", TRUE, TRUE)

Two == Leaf(<<2>>, PyInt(2), "positive fixint", TRUE, TRUE)

StrTwo == Leaf(<<163, 116, 119, 111>>, PyStr(<<116, 119, 111>>), "fixstr", TRUE, TRUE)

StrB == Leaf(<<161, 98>>, PyStr(<<98>>), "fixstr", TRUE, TRUE)

Zero == Leaf(<<0>>, PyInt(0), "positive fixint", TRUE, TRUE)

Tests ==
    { Container("fixarray", <<One, StrTwo, Three>>),
      Container("array16", [i \in 1..100 |-> Zero]),
      Container("fixmap", <<StrA, One, StrB, Container("fixarray", <<Two>>)>>),
      Container("fixarray", <<Reserved, One>>),
      Container("fixarray", <<One, Reserved>>),
      Container("fixmap", <<StrA, Container("array16", <<One, Reserved>>)>>) }

Vectors == Leaves \cup Arrays \cup Maps \cup Tests

\* Every one-byte integer: the tags 0xxxxxxx and 111xxxxx, with the values
\* the formats table gives them (N, and -N for the low five bits N).
SmallInts ==
    {Leaf(<<b>>, PyInt(b), "positive fixint", TRUE, TRUE) : b \in 0..127}
    \cup {Leaf(<<b>>, PyInt(0 - (b - 224)), "negative fixint", TRUE, FALSE) :
             b \in 224..255}

\* Encodings with registered tags that are not valid: a fixstr whose payload
\* is not UTF-8, alone and as an element of an array. Their build raises.
BadStr == [Leaf(<<161, 255>>, PyNone, "fixstr", TRUE, TRUE) EXCEPT !.valid = FALSE]

Malformed ==
    { BadStr,
      Container("fixarray", <<BadStr>>),
      Container("fixarray", <<BadStr, One>>),
      Container("fixarray", <<One, BadStr>>) }

\* What may follow the first value in a stream.
Followers == {One, Container("fixarray", <<StrA>>), Reserved}

Streams ==
    {<<a>> : a \in Vectors \cup SmallInts \cup Malformed}
    \cup {<<a, b>> : a \in Vectors, b \in Followers}

\* ------------------------------------------------------------ the caller

\* The caller hands over buffers of at most MaxChunk bytes, or all the bytes
\* it has left.
MaxChunk == 3

\* The whole stream, and the place in it where message i starts.
Input == Concat([i \in 1..Len(msgs) |-> msgs[i].e])

Offset(i) == Sum([j \in 1..(i - 1) |-> Len(msgs[j].e)])

ChunkSizes == {n \in 0..(Len(Input) - pos) : n <= MaxChunk \/ n = Len(Input) - pos}

Init ==
    /\ impl \in {"decoder.py", "mpinc.py", "decoder_with_generators.py"}
    /\ msgs \in Streams
    /\ pos = 0
    /\ k = 1
    /\ start = 0
    /\ calls = 0
    /\ lastErr = ""
    /\ nErr = 0
    /\ offered = 0
    /\ taken = 0
    /\ again = FALSE
    /\ sw = Decoder
    /\ mp = mpinc_Decoder
    /\ gd = MessagePackDecoder(default_BytesIO).self
    /\ default_arg = MessagePackDecoder(default_BytesIO).default
    /\ alone = [d |-> gd, default |-> default_arg]
    /\ other = <<>>
    /\ opos = 0

\* The caller's bookkeeping of a write call with the next n unconsumed bytes
\* on a decoder that was complete or not (done), which returned ret or
\* raised err, after taking t bytes.
Called(n, done, ret, err, t) ==
    /\ nErr < MaxFailedCalls
    /\ pos' = IF err = "" THEN pos + ret ELSE pos
    /\ calls' = Min(calls + 1, 2)
    /\ lastErr' = err
    /\ nErr' = IF err = "" THEN nErr ELSE nErr + 1
    /\ offered' = Max(offered, pos + n)
    /\ taken' = taken + t
    /\ again' = (again \/ done)
    /\ UNCHANGED <<impl, msgs, k, start>>

\* d.write(buf) on decoder.py's decoder, buf the next n unconsumed bytes.
WriteDecoder ==
    /\ impl = "decoder.py"
    /\ \E n \in ChunkSizes :
         \E buf \in {SubSeq(Input, pos + 1, pos + n)} :
           \E r \in {write(sw, buf)} :
             /\ sw' = r.w
             /\ Called(n, sw.full, r.ret, r.err, r.taken)
    /\ UNCHANGED mp
    /\ UNCHANGED genVars

\* d.write(buf) on mpinc.py's decoder, with the default buf_start = 0.
WriteMpinc ==
    /\ impl = "mpinc.py"
    /\ \E n \in ChunkSizes :
         \E buf \in {SubSeq(Input, pos + 1, pos + n)} :
           \E r \in {mpinc_write(mp, buf, 0)} :
             /\ mp' = r.self
             /\ Called(n, mp.has_value, r.used, r.err, r.used)
    /\ UNCHANGED sw
    /\ UNCHANGED genVars

Fresh ==
    /\ k' = k + 1
    /\ start' = pos
    /\ calls' = 0
    /\ lastErr' = ""
    /\ nErr' = 0
    /\ offered' = pos
    /\ taken' = 0
    /\ again' = FALSE
    /\ UNCHANGED <<impl, msgs, pos>>

\* Decoder() of decoder.py, once the previous decoder is full and another
\* value follows: the next decoder gets the unconsumed remainder.
NewDecoder ==
    /\ impl = "decoder.py"
    /\ sw.full
    /\ k < Len(msgs)
    /\ sw' = Decoder
    /\ Fresh
    /\ UNCHANGED mp
    /\ UNCHANGED genVars

\* Decoder() of mpinc.py, likewise.
NewMpinc ==
    /\ impl = "mpinc.py"
    /\ mp.has_value
    /\ k < Len(msgs)
    /\ mp' = mpinc_Decoder
    /\ Fresh
    /\ UNCHANGED sw
    /\ UNCHANGED genVars

\* d.write(buf) on the MessagePackDecoder, buf the next n unconsumed bytes;
\* the same buffer goes to a decoder.py Decoder, and the same call is made in
\* the process where the MessagePackDecoder is alone.
WriteGenerators ==
    /\ impl = "decoder_with_generators.py"
    /\ \E n \in ChunkSizes :
         \E buf \in {SubSeq(Input, pos + 1, pos + n)} :
           \E r \in {MessagePackDecoder_write(gd, buf, default_arg)} :
             /\ gd' = r.self
             /\ default_arg' = r.default
             /\ sw' = write(sw, buf).w
             /\ \E a \in {MessagePackDecoder_write(alone.d, buf, alone.default)} :
                  alone' = [d |-> a.self, default |-> a.default]
             /\ Called(n, full(gd), r.ret, r.err, r.taken)
    /\ UNCHANGED <<mp, other, opos>>

\* MessagePackDecoder(), once the previous one is full and another value
\* follows, together with a new decoder.py Decoder.
NewGenerators ==
    /\ impl = "decoder_with_generators.py"
    /\ full(gd)
    /\ k < Len(msgs)
    /\ \E c \in {MessagePackDecoder(default_arg)} :
         /\ gd' = c.self
         /\ default_arg' = c.default
    /\ \E c \in {MessagePackDecoder(default_BytesIO)} :
         alone' = [d |-> c.self, default |-> c.default]
    /\ sw' = Decoder
    /\ Fresh
    /\ UNCHANGED <<mp, other, opos>>

\* The bytes written to the second MessagePackDecoder: an array of one 1.
OtherInput == <<145, 1>>

\* The streams during which a second MessagePackDecoder is at work: the
\* one-value streams of arrays and maps, where the first decoder is
\* suspended inside nested fill generators between its calls.
TwoDecoders == {<<a>> : a \in Arrays \cup Maps}

\* The second MessagePackDecoder is constructed, at any time.
OtherNew ==
    /\ impl = "decoder_with_generators.py"
    /\ msgs \in TwoDecoders
    /\ other = <<>>
    /\ \E c \in {MessagePackDecoder(default_arg)} :
         \E a \in {MessagePackDecoder(default_BytesIO)} :
           /\ other' = <<[d |-> c.self,
                          alone |-> [d |-> a.self, default |-> a.default]]>>
           /\ default_arg' = c.default
    /\ UNCHANGED <<impl, msgs, pos, k, start, calls, lastErr, nErr, offered,
                   taken, again, sw, mp, gd, alone, opos>>

\* A write call on the second MessagePackDecoder, between any two calls on
\* the first.
OtherWrite ==
    /\ impl = "decoder_with_generators.py"
    /\ other # <<>>
    /\ \E n \in 1..(Len(OtherInput) - opos) :
         \E buf \in {SubSeq(OtherInput, opos + 1, opos + n)} :
           \E r \in {MessagePackDecoder_write(other[1].d, buf, default_arg)} :
             \E a \in {MessagePackDecoder_write(other[1].alone.d, buf,
                                                other[1].alone.default)} :
               /\ other' = <<[d |-> r.self,
                              alone |-> [d |-> a.self, default |-> a.default]]>>
               /\ default_arg' = r.default
               /\ opos' = opos + n
    /\ UNCHANGED <<impl, msgs, pos, k, start, calls, lastErr, nErr, offered,
                   taken, again, sw, mp, gd, alone>>

Next ==
    \/ WriteDecoder \/ WriteMpinc \/ NewDecoder \/ NewMpinc
    \/ WriteGenerators \/ NewGenerators \/ OtherNew \/ OtherWrite

Spec == Init /\ [][Next]_vars

\* ------------------------------------------------------------ properties

\* The vector the current decoder was constructed to decode, which it is
\* decoding when it started at that vector's first byte.
Cur == msgs[k]

Aligned == start = Offset(k)

\* d.full of decoder.py, d.has_value of mpinc.py, and d.value.
Done ==
    IF impl = "decoder.py" THEN sw.full
    ELSE IF impl = "mpinc.py" THEN mp.has_value
    ELSE full(gd)

Value ==
    IF impl = "decoder.py" THEN sw.value
    ELSE IF impl = "mpinc.py" THEN mp.value
    ELSE gd._result

\* The place in a vector's encoding of the first tag the decoder under test
\* does not register, 0 when it registers them all.
Bad(vec) == IF impl = "mpinc.py" THEN vec.badMp ELSE vec.badDec

\* The value as mpinc.py presents it: an array is a tuple there.
RECURSIVE Tup(_)
Tup(v) ==
    IF v.c = <<>> THEN (IF v.k = "list" THEN [v EXCEPT !.k = "tuple"] ELSE v)
    ELSE [k |-> IF v.k = "list" THEN "tuple" ELSE v.k, n |-> v.n, s |-> v.s,
          c |-> [i \in 1..Len(v.c) |-> Tup(v.c[i])]]

Expected(vec) == IF impl = "mpinc.py" THEN Tup(vec.v) ELSE vec.v

\* C1: chunk-invariance in decoder.py. When a valid encoding E of registered
\* formats is the whole stream and has been handed to a fresh decoder in
\* consecutive chunks, empty ones included, the decoder is full, holds the
\* value E encodes, and the returned counts add up to len(E).
C1_ChunkInvariance ==
    (/\ impl = "decoder.py"
     /\ Len(msgs) = 1
     /\ Cur.badDec = 0
     /\ offered = Len(Cur.e))
    => (sw.full /\ sw.value = Cur.v /\ pos = Len(Cur.e) /\ nErr = 0)

C3_IdempotentAfterFull ==
    [][(impl = "decoder.py" /\ sw.full /\ k' = k)
       => (pos' = pos /\ lastErr' = "" /\ sw'.full /\ sw'.value = sw.value)]_vars

\* C4: excess input is never consumed. A decoder that started at a valid
\* encoding E of registered formats never reports or takes more than len(E)
\* bytes, whatever follows E in the buffers; when it is complete it has
\* reported exactly len(E); and the decoder constructed next, given the
\* unconsumed remainder, holds the value of the encoding that follows when it
\* completes.
C4_ExcessNotConsumed ==
    (Aligned /\ Bad(Cur) = 0 /\ Cur.valid)
    => (/\ pos - start <= Len(Cur.e)
        /\ taken <= Len(Cur.e)
        /\ nErr = 0
        /\ (Done => pos - start = Len(Cur.e))
        /\ (k = 2 /\ Done /\ ~again => Value = Expected(Cur)))

C4_Witness ==
    /\ impl = "decoder.py"
    /\ k = 2
    /\ Aligned
    /\ Len(msgs[1].e) > 1
    /\ Cur.fam = "fixarray"
    /\ calls = 1
    /\ Done
    /\ ~again
    /\ offered > start + Len(Cur.e) - 1

\* C5: truncated input is not an error. While less than the whole of a valid
\* encoding of registered formats has been handed to a fresh decoder, no call
\* has raised, every call returned the length of its buffer, and the decoder
\* is not complete.
C5_TruncatedNotError ==
    (Aligned /\ Bad(Cur) = 0 /\ Cur.valid /\ offered < start + Len(Cur.e))
    => (lastErr = "" /\ nErr = 0 /\ ~Done /\ pos = offered)

C5_Witness ==
    /\ impl = "decoder.py"
    /\ Aligned
    /\ Cur.fam = "fixmap"
    /\ Cur.n = 2
    /\ Bad(Cur) = 0 /\ Cur.valid
    /\ calls = 2
    /\ offered = start + Len(Cur.e) - 1

\* The exceptions of get_format (decoder.py) and _read_type (mpinc.py) for a
\* byte no descriptor matches.
UnknownTag == {"AssertionError: unknown tag", "TypeError: unknown tag"}

\* C6: unknown tag. When the encoding the decoder started at has, at a tag
\* position, a byte that no descriptor matches, the write call whose buffer
\* reaches that byte raises the unknown-tag error, and the decoder has taken
\* no byte after the offending one.
C6_UnknownTag ==
    (Aligned /\ Bad(Cur) > 0)
    => (/\ (offered >= start + Bad(Cur) => nErr >= 1)
        /\ (offered < start + Bad(Cur) => nErr = 0 /\ pos = offered)
        /\ (nErr = 1 /\ lastErr # ""
              => /\ lastErr \in UnknownTag
                 /\ taken <= Bad(Cur)
                 /\ pos < start + Bad(Cur)))

C6_Witness ==
    /\ impl = "decoder.py"
    /\ Aligned
    /\ Cur.fam = "fixmap"
    /\ Bad(Cur) > 3
    /\ calls = 2
    /\ nErr = 1
    /\ lastErr \in UnknownTag
    /\ offered > start + Bad(Cur)

\* C7: signed integers in decoder.py. An encoding with tag 0xd0, 0xd1, 0xd2
\* or 0xd3 and 1, 2, 4 or 8 payload bytes, once handed over in full, has been
\* decoded without an error to the two's-complement integer of the payload,
\* with 2, 3, 5 or 9 bytes reported as consumed.
C7_SignedIntegers ==
    (/\ impl = "decoder.py"
     /\ Aligned
     /\ Cur.fam \in {"int8", "int16", "int32", "int64"}
     /\ offered >= start + Len(Cur.e)
     /\ ~again)
    => (/\ nErr = 0
        /\ sw.full
        /\ sw.value = PyInt(from_bytes_signed(SubSeq(Cur.e, 2, Len(Cur.e))))
        /\ pos - start = Len(Cur.e)
        /\ Len(Cur.e) \in {2, 3, 5, 9})

\* The tag bytes of the wire format table: every byte but the reserved 0xc1.
ListedTags == (0..255) \ {193}

\* C8: descriptor uniqueness in decoder.py's formats. Every tag byte of the
\* wire format table is matched by exactly one descriptor, and no byte is
\* matched by two.
C8_DescriptorUniqueness ==
    impl = "decoder.py"
    => \A b \in 0..255 :
         /\ Cardinality(matching(b)) <= 1
         /\ (b \in ListedTags => Cardinality(matching(b)) = 1)

\* The values the decoder under test has collected for the container it
\* started at, and the count it is collecting them up to (<<>> before the
\* header is complete).
Collected ==
    IF impl = "decoder.py"
    THEN IF sw._iterator.frames = <<>> THEN <<>>
         ELSE IF sw._iterator.frames[1].pc = "yield from"
         THEN sw._iterator.frames[1].payload ELSE <<>>
    ELSE IF impl = "mpinc.py" THEN mp._payload_list
    ELSE IF gd._generator.frames = <<>> THEN <<>>
    ELSE IF gd._generator.frames[1].pc = "subdecoder"
    THEN gd._generator.frames[1].payload_list ELSE <<>>

CollectingTo ==
    IF impl = "decoder.py"
    THEN IF sw._iterator.frames = <<>> THEN <<>>
         ELSE IF sw._iterator.frames[1].pc = "yield from"
         THEN <<sw._iterator.frames[1].L>> ELSE <<>>
    ELSE IF impl = "mpinc.py" THEN mp._size
    ELSE IF gd._generator.frames = <<>> THEN <<>>
    ELSE IF gd._generator.frames[1].pc = "subdecoder"
    THEN <<gd._generator.frames[1].L>> ELSE <<>>

\* The element values of a vector as the decoder under test presents them.
Items(vec) ==
    IF impl = "mpinc.py" THEN [i \in 1..Len(vec.items) |-> Tup(vec.items[i])]
    ELSE vec.items

\* C9: arrays and nesting. An array with count N of elements of registered
\* formats decodes to exactly its N element values in wire order, the
\* elements collected one after the other (in decoder.py by a child
\* activation above the array's), and the consumed count is the header length
\* plus the sum of the elements' encoding lengths.
C9_Arrays ==
    (Aligned /\ IsArray(Cur.fam) /\ Bad(Cur) = 0 /\ Cur.valid)
    => (/\ (Done /\ ~again
              => /\ Value.k \in {"list", "tuple"}
                 /\ Len(Value.c) = Cur.n
                 /\ Value.c = Items(Cur)
                 /\ pos - start = Cur.hdr + Sum(Cur.lens))
        /\ (~Done
              => /\ Len(Collected) <= Cur.n
                 /\ Collected = SubSeq(Items(Cur), 1, Len(Collected))
                 /\ (CollectingTo # <<>> => CollectingTo[1] = Cur.n)
                 /\ (impl = "decoder.py" /\ CollectingTo # <<>>
                       => Len(sw._iterator.frames) >= 2)))

C9_Witness ==
    /\ impl = "decoder.py"
    /\ Aligned
    /\ Cur.fam = "array16"
    /\ Cur.n = 100
    /\ Done
    /\ ~again
    /\ Len(sw.value.c) = 100
    /\ pos - start = 103

C11_SmallIntegers ==
    (/\ Aligned
     /\ Cur.fam \in {"positive fixint", "negative fixint"}
     /\ Bad(Cur) = 0 /\ Cur.valid
     /\ offered >= start + 1
     /\ ~again)
    => (/\ Len(Cur.e) = 1
        /\ (Cur.e[1] < 128 \/ Cur.e[1] >= 224)
        /\ Done
        /\ Value = PyInt(IF Cur.e[1] < 128 THEN Cur.e[1] % 128
                         ELSE 0 - (Cur.e[1] % 32))
        /\ (Cur.e[1] \in {0, 224} => Value = PyInt(0))
        /\ pos - start = 1
        /\ taken = 1
        /\ nErr = 0)

C11_Witness ==
    /\ impl = "decoder.py"
    /\ Aligned
    /\ Cur.e = <<255>>
    /\ Done
    /\ ~again
    /\ sw.value = PyInt(0 - 31)
    /\ pos - start = 1

\* The width of the length field of an extension family.
ExtWidth(fam) == IF fam = "ext8" THEN 1 ELSE IF fam = "ext16" THEN 2 ELSE 4

\* C12: extensions. With tag 0xc7, 0xc8 or 0xc9 and a big-endian length
\* field N of 1, 2 or 4 bytes, the decoder is complete exactly when it has
\* been given the 1 + width + 1 + N bytes, which it reports as consumed, and
\* the value is Ext(type = the byte after the length field, data = the N
\* bytes after that).
C12_Extensions ==
    (Aligned /\ Cur.fam \in {"ext8", "ext16", "ext32"} /\ Bad(Cur) = 0 /\ Cur.valid)
    => LET width == ExtWidth(Cur.fam)
           N     == from_bytes_unsigned(SubSeq(Cur.e, 2, 1 + width))
       IN /\ Cur.e[1] = 198 + (IF width = 4 THEN 3 ELSE width)
          /\ Len(Cur.e) = 1 + width + 1 + N
          /\ nErr = 0
          /\ (offered < start + 1 + width + 1 + N => ~Done)
          /\ (offered >= start + 1 + width + 1 + N /\ ~again
                => /\ Done
                   /\ pos - start = 1 + width + 1 + N
                   /\ Value = PyExt(Cur.e[2 + width],
                                    SubSeq(Cur.e, 3 + width, Len(Cur.e)))
                   /\ Len(Value.s) = N)

C12_Witness ==
    /\ impl = "decoder.py"
    /\ Aligned
    /\ Cur.e = <<199, 0, 5>>
    /\ Done
    /\ ~again
    /\ sw.value = PyExt(5, <<>>)
    /\ pos - start = 3

\* The MessagePackDecoder and the decoder.py Decoder, given every buffer
\* alike so far, agree on full and on the value, and on the next buffer of
\* any size both return the same count or both raise the same exception.
SameAnswers ==
    /\ full(gd) = sw.full
    /\ result(gd).v = sw.value
    /\ \A n \in ChunkSizes :
         \E buf \in {SubSeq(Input, pos + 1, pos + n)} :
           \E g \in {MessagePackDecoder_write(gd, buf, default_arg)} :
             \E r \in {write(sw, buf)} :
               /\ g.err = r.err
               /\ g.err = "" => g.ret = r.ret

\* C13: equivalence of the two resumability strategies. For every sequence
\* of write calls, the generator-based MessagePackDecoder and the spillover
\* Decoder return the same consumed count on every call and agree after
\* every call on full and on the value.
C13_GeneratorEquivalence ==
    impl = "decoder_with_generators.py" => SameAnswers

\* The two agree as long as no write call was made on a full decoder and no
\* call raised.
C13_EquivalentUntilFull ==
    (impl = "decoder_with_generators.py" /\ ~again /\ nErr = 0) => SameAnswers

\* A decoder d of the process and the same decoder in a process of its own
\* (a, with the default reader adef) are in the same state, and a write of
\* the next n bytes of input after the first at returns the same count or
\* raises the same exception in both.
SameAsAlone(d, a, adef, input, at, sizes) ==
    /\ d = a
    /\ full(d) = full(a)
    /\ result(d) = result(a)
    /\ \A n \in sizes :
         \E buf \in {SubSeq(input, at + 1, at + n)} :
           \E r \in {MessagePackDecoder_write(d, buf, default_arg)} :
             \E q \in {MessagePackDecoder_write(a, buf, adef)} :
               /\ r.ret = q.ret
               /\ r.err = q.err

\* C14: instance isolation. With the write calls on two MessagePackDecoder
\* instances interleaved in any order, each instance returns the counts and
\* reaches the full flag and the result it reaches when its calls are run
\* alone, and the default reader of fill, the one object the instances and
\* their subdecoders have in common, is never changed.
C14_InstanceIsolation ==
    impl = "decoder_with_generators.py" =>
      /\ default_arg = default_BytesIO
      /\ SameAsAlone(gd, alone.d, alone.default, Input, pos, ChunkSizes)
      /\ other # <<>> =>
           SameAsAlone(other[1].d, other[1].alone.d, other[1].alone.default,
                       OtherInput, opos, 0..(Len(OtherInput) - opos))

\* Both instances are suspended inside the fill of a subdecoder, each after
\* a call of its own, and the first one is in its second element.
C14_Witness ==
    /\ impl = "decoder_with_generators.py"
    /\ other # <<>>
    /\ opos = 1
    /\ Len(other[1].d._generator.frames) = 2
    /\ Len(gd._generator.frames) >= 2
    /\ Len(gd._generator.frames[1].payload_list) = 1
    /\ pos > start

\* Reading the attribute value of decoder.py's Decoder (set to None at line
\* 220) and of mpinc.py's Decoder (set to None at line 299): a plain
\* attribute read, which returns what the attribute holds.
Decoder_value(self) == Ok(self.value)

mpinc_Decoder_value(self) == Ok(self.value)

\* What reading the decoded value gives in the current state: a returned
\* value v, or an exception err.
ReadValue ==
    IF impl = "decoder.py" THEN Decoder_value(sw)
    ELSE IF impl = "mpinc.py" THEN mpinc_Decoder_value(mp)
    ELSE result(gd)

\* C15: reading the decoded value before the decoder is complete fails with
\* a precondition violation instead of yielding a value, for decoder.py's
\* Decoder value, MessagePackDecoder.result() and mpinc.py's Decoder value.
C15_ValueBeforeComplete ==
    ~Done => ReadValue.err # ""

\* What the code does instead: before completion the read returns None.
C15_NoneBeforeComplete ==
    ~Done => ReadValue = Ok(PyNone)

\* The number of elements of the container vec whose last byte is among the
\* bytes offered to the decoder under test.
Delivered(vec) ==
    Cardinality({i \in 1..Len(vec.lens) :
                   start + vec.hdr + Sum(SubSeq(vec.lens, 1, i)) <= offered})

\* C16: maximal progress. For every valid encoding E of registered formats
\* and every chunking of it, the decoder is complete, with len(E) bytes
\* consumed, on return from the write call that delivers the last byte of E;
\* and a container that is not yet complete has collected every element
\* whose last byte was delivered, so that an element completes in the call
\* that delivers its last byte, whatever its depth.
C16_MaximalProgress ==
    (Aligned /\ Bad(Cur) = 0 /\ Cur.valid)
    => /\ nErr = 0
       /\ (offered >= start + Len(Cur.e)
             => Done /\ pos - start = Len(Cur.e))
       /\ (offered < start + Len(Cur.e) => ~Done /\ pos = offered)
       /\ (~Done /\ (IsArray(Cur.fam) \/ IsMap(Cur.fam)) /\ offered >= start + Cur.hdr
             => Len(Collected) = Delivered(Cur))

\* A map ending in a nested array is complete after two or more calls: the
\* last call delivered the last byte of the array's last element, and the
\* array and the map were both built in it.
C16_Witness ==
    /\ impl = "decoder.py"
    /\ Aligned
    /\ Cur.fam = "fixmap"
    /\ Cur.n = 2
    /\ Cur.items[4].k = "list"
    /\ calls = 2
    /\ ~again
    /\ Done
    /\ pos - start = Len(Cur.e)

\* An empty map, with no length field and no element, is complete after the
\* call that delivers its tag.
C16_ZeroWidth ==
    /\ impl = "decoder_with_generators.py"
    /\ Aligned
    /\ Cur.e = <<128>>
    /\ calls = 1
    /\ Done
    /\ pos - start = 1

IsPrefix(a, b) == Len(a) <= Len(b) /\ a = SubSeq(b, 1, Len(a))

\* The phases of an mpinc.py Decoder d and of the child decoders below it
\* are in order: no _size without a _type, no has_value without a _size, and
\* a child decoder only under a container that has its _size and no value.
RECURSIVE PhaseOrdered(_)
PhaseOrdered(d) ==
    /\ d._size # <<>> => d._type # <<>>
    /\ d.has_value => d._size # <<>>
    /\ d._child_decoder # <<>>
         => /\ d._size # <<>>
            /\ ~d.has_value
            /\ PhaseOrdered(d._child_decoder[1])

\* From d to e a Decoder only moved forward: a _type or _size that was set
\* is the same, the buffers and the list of elements have only grown, a
\* decoder with a value is unchanged, and the child decoder still at work on
\* the same element only moved forward.
RECURSIVE Forward(_, _)
Forward(d, e) ==
    /\ d._type # <<>> => e._type = d._type
    /\ d._size # <<>> => e._size = d._size
    /\ d.has_value => e = d
    /\ IsPrefix(d._size_buffer, e._size_buffer)
    /\ IsPrefix(d._payload_buffer, e._payload_buffer)
    /\ IsPrefix(d._payload_list, e._payload_list)
    /\ (/\ d._child_decoder # <<>>
        /\ e._child_decoder # <<>>
        /\ Len(e._payload_list) = Len(d._payload_list))
         => Forward(d._child_decoder[1], e._child_decoder[1])

\* C17: phase order in mpinc.py's Decoder. Over any sequence of write calls
\* the decoder moves only forward through _type set, _size set, has_value:
\* _size is never set while _type is None, has_value is never true while
\* _size is None, no field is reset or changed once set, and once has_value
\* is true every write returns 0 and changes no field of the decoder.
C17_PhaseOrder ==
    [][(impl = "mpinc.py" /\ k' = k)
         => /\ PhaseOrdered(mp')
            /\ Forward(mp, mp')
            /\ mp.has_value => (mp' = mp /\ pos' = pos /\ lastErr' = "")]_vars

\* A decoder that has its _type, its _size and a child decoder at work, after
\* two or more calls; and a decoder with a value that was written to again.
C17_Witness ==
    /\ impl = "mpinc.py"
    /\ calls = 2
    /\ mp._type # <<>>
    /\ mp._size # <<>>
    /\ mp._child_decoder # <<>>
    /\ mp._child_decoder[1]._type # <<>>
    /\ mp._child_decoder[1]._size = <<>>
    /\ Len(mp._payload_list) >= 1

C17_WrittenAgain ==
    /\ impl = "mpinc.py"
    /\ mp.has_value
    /\ again

\* Every activation that collects the items of a map (of decoder_coroutine
\* in frames of decoder.py's generator, of fill in those of the
\* MessagePackDecoder's) collects up to L = 2 * N of them and is not yet
\* there: build_map is called when the list has L items.
MapsCollectEven(frames, collecting, list(_)) ==
    \A i \in 1..Len(frames) :
      (frames[i].pc = collecting /\ frames[i].format.build_fn = "build_map")
        => /\ frames[i].L = 2 * frames[i].N
           /\ Len(list(frames[i])) < frames[i].L

\* C18: the assertion of build_map that the item count is even holds on
\* every reachable execution: for every input and chunking, build_map is
\* called with 2 * N items and no write call raises the AssertionError.
C18_MapAssertion ==
    /\ lastErr # "AssertionError: odd"
    /\ MapsCollectEven(sw._iterator.frames, "yield from", LAMBDA f : f.payload)
    /\ MapsCollectEven(gd._generator.frames, "subdecoder",
                       LAMBDA f : f.payload_list)
    /\ \A n \in ChunkSizes :
         \E buf \in {SubSeq(Input, pos + 1, pos + n)} :
           write(sw, buf).err # "AssertionError: odd"

\* build_map was called: a map of two pairs is built, in a call that raised
\* nothing.
C18_Witness ==
    /\ impl = "decoder.py"
    /\ Aligned
    /\ Cur.fam = "fixmap"
    /\ Cur.n = 2
    /\ Done
    /\ ~again
    /\ Value.k = "dict"
    /\ Len(Value.c) >= 1
    /\ lastErr = ""

\* The buffer of activation f that is yielded at f.pc, and the capacity it
\* is yielded with (lines 262, 267 and 278).
YieldedBuffer(f) ==
    IF f.pc = "type_buf" THEN f.type_buf
    ELSE IF f.pc = "N_buf" THEN f.N_buf
    ELSE f.payload

YieldedCapacity(f) ==
    IF f.pc = "type_buf" THEN 1
    ELSE IF f.pc = "N_buf" THEN f.format.N_size
    ELSE f.L

\* No buffer of an activation holds more than the capacity it was, or is to
\* be, yielded with.
WithinCapacity(f) ==
    /\ Len(f.type_buf) <= 1
    /\ f.pc # "type_buf" => Len(f.N_buf) <= f.format.N_size
    /\ f.pc = "payload" => Len(f.payload) <= f.L

\* C19: byte conservation in SpilloverWriter.write. A call returns r with
\* 0 <= r <= len(buf), the number of bytes it appended to buffers; a buffer
\* receives the smaller of its remaining capacity and the remaining input,
\* and never holds more than its capacity; and the bytes appended over the
\* calls, in order, are the consumed prefixes buf[0:r] of the calls, in order.
C19_ByteConservation ==
    impl = "decoder.py" =>
      /\ nErr = 0 => sw.extended = SubSeq(Input, start + 1, pos)
      /\ \A i \in 1..Len(sw._iterator.frames) :
           WithinCapacity(sw._iterator.frames[i])
      /\ sw._writer # "None"
           => /\ sw._writer = Top(sw._iterator.frames).pc
              /\ sw._capacity[1] > 0
              /\ Len(YieldedBuffer(Top(sw._iterator.frames))) + sw._capacity[1]
                   = YieldedCapacity(Top(sw._iterator.frames))
      /\ \A n \in ChunkSizes :
           \E buf \in {SubSeq(Input, pos + 1, pos + n)} :
             \E r \in {write(sw, buf)} :
               /\ r.w.extended = sw.extended \o SubSeq(buf, 1, r.taken)
               /\ r.err = ""
                    => /\ 0 <= r.ret
                       /\ r.ret <= Len(buf)
                       /\ r.ret = r.taken
                       /\ Len(r.w.extended) = Len(sw.extended) + r.ret
                       /\ r.ret < Len(buf) => r.w.full

\* A payload buffer holds part of its capacity after a call that took all
\* of a buffer of two or more bytes, spread over the three buffers of a value.
C19_Witness ==
    /\ impl = "decoder.py"
    /\ calls = 1
    /\ nErr = 0
    /\ sw._writer = "payload"
    /\ sw._capacity[1] > 0
    /\ Len(Top(sw._iterator.frames).payload) > 0
    /\ Len(Top(sw._iterator.frames).N_buf) > 0
    /\ Len(sw.extended) = pos - start
    /\ pos - start >= 3

\* The writer is about to call next() on the suspended generator, so that
\* control re-enters decoder_coroutine after the yield of its innermost
\* activation.
Reenters(self) ==
    self._writer = "None" /\ self._iterator.state = "suspended"

\* At every re-entry during the first `fuel` iterations of the loop of
\* write, from its state st on, the buffer of the yield holds exactly the
\* capacity it was yielded with. The iterations are split in halves as in
\* write_loop.
RECURSIVE ReentersFull(_, _, _)
ReentersFull(st, buf, fuel) ==
    IF fuel <= 1
    THEN Reenters(st.self)
           => Len(YieldedBuffer(Top(st.self._iterator.frames)))
                = YieldedCapacity(Top(st.self._iterator.frames))
    ELSE /\ ReentersFull(st, buf, fuel \div 2)
         /\ \E mid \in {write_loop(st, buf, fuel \div 2)} :
              mid.left = "" => ReentersFull(mid, buf, fuel - fuel \div 2)

\* C20: the resumption guarantee of the spillover scheme. Whenever control
\* re-enters decoder_coroutine after a yield of (buffer, capacity), the
\* buffer holds exactly capacity bytes; so type_buf[0] is readable when
\* it is read and the assertion len(N_buf) == N_size of Format.get_N_and_L
\* holds, for every input and chunking.
C20_ResumptionGuarantee ==
    impl = "decoder.py" =>
      /\ lastErr \notin {"IndexError", "AssertionError: N_buf", "no return"}
      /\ \A n \in ChunkSizes :
           \E buf \in {SubSeq(Input, pos + 1, pos + n)} :
             /\ ReentersFull(Running(sw, 0), buf, write_fuel(buf))
             /\ write(sw, buf).err
                  \notin {"IndexError", "AssertionError: N_buf", "no return"}

\* A length field of two bytes was filled over two calls, the generator
\* re-entered and get_N_and_L passed: the payload is being collected.
C20_Witness ==
    /\ impl = "decoder.py"
    /\ calls = 2
    /\ nErr = 0
    /\ pos - start = 3
    /\ Len(sw._iterator.frames) = 1
    /\ Len(Top(sw._iterator.frames).N_buf) = 2
    /\ Top(sw._iterator.frames).pc = "payload"
    /\ Top(sw._iterator.frames).L > 0

\* The container invariant of an mpinc.py Decoder d and of the child
\* decoders below it: with a container type and _size set, _payload_list
\* has at most _size values, the child decoder is None or has no value, and
\* has_value is true exactly when _payload_list has _size values.
RECURSIVE ContainerInvariant(_)
ContainerInvariant(d) ==
    (d._type # <<>> /\ d._size # <<>> /\ d._type[1].T.is_container)
    => /\ Len(d._payload_list) <= d._size[1]
       /\ d.has_value <=> (Len(d._payload_list) = d._size[1])
       /\ d._child_decoder # <<>>
            => /\ ~d._child_decoder[1].has_value
               /\ ContainerInvariant(d._child_decoder[1])

\* C21: the container invariant of mpinc.py's Decoder holds on return from
\* every write call: len(_payload_list) <= _size, _child_decoder is None or
\* a decoder whose has_value is false, and has_value is true exactly when
\* len(_payload_list) == _size.
C21_ContainerInvariant ==
    (impl = "mpinc.py" /\ lastErr = "") => ContainerInvariant(mp)

\* The same on return from the calls made before any call raised.
C21_UntilRaise ==
    (impl = "mpinc.py" /\ nErr = 0) => ContainerInvariant(mp)

\* C22: every write call terminates, for every buffer (the empty one
\* included) and every reachable decoder state: the while True loop of
\* SpilloverWriter.write exits within write_fuel(buf) iterations and the
\* while loop of mpinc's Decoder._write_into_container, at every depth,
\* within container_fuel(buf) passes, also over buffers of capacity zero and
\* empty containers.
C22_Termination ==
    /\ lastErr # "no return"
    /\ impl # "mpinc.py" =>
         \A n \in ChunkSizes :
           \E buf \in {SubSeq(Input, pos + 1, pos + n)} :
             write(sw, buf).err # "no return"
    /\ impl = "mpinc.py" =>
         \A n \in ChunkSizes :
           \E buf \in {SubSeq(Input, pos + 1, pos + n)} :
             mpinc_write(mp, buf, 0).err # "no return"

\* One call returned with an array built whose first two elements are an
\* empty array and an empty map: the loop passed their yields of capacity
\* zero and the array's own.
C22_Witness ==
    /\ impl = "decoder.py"
    /\ Aligned
    /\ Cur.fam = "fixarray"
    /\ Cur.n = 3
    /\ Cur.e[2] = 144
    /\ Cur.e[3] = 128
    /\ calls = 1
    /\ lastErr = ""
    /\ Done

\* C23: an unknown-tag failure is final in decoder.py. After a write call on
\* a Decoder failed on a byte that no descriptor matches (by C6 the first
\* failure of a decoder that started at an encoding with such a byte), no
\* later write call, of any bytes or none, makes the decoder report full or
\* expose a value.
C23_UnknownTagFinal ==
    (impl = "decoder.py" /\ Aligned /\ Bad(Cur) > 0 /\ nErr >= 1)
    => (~sw.full /\ sw.value = PyNone)

\* What the code does instead: the write call that follows the failure
\* returns 0 and leaves the decoder full, with the value None.
C23_FullAfterFailure ==
    [][(impl = "decoder.py" /\ lastErr \in UnknownTag /\ k' = k)
         => (sw'.full /\ sw'.value = PyNone /\ pos' = pos /\ lastErr' = "")]_vars

\* C24: index safety in mpinc.py's Decoder. For every sequence of write(buf)
\* calls with the default buf_start = 0, every read buf[buf_start] of
\* _read_type, at the top level and in every child decoder, happens with
\* buf_start < len(buf): no call, made or possible next, raises IndexError.
C24_IndexSafety ==
    impl = "mpinc.py" =>
      /\ lastErr # "IndexError"
      /\ \A n \in ChunkSizes :
           \E buf \in {SubSeq(Input, pos + 1, pos + n)} :
             mpinc_write(mp, buf, 0).err # "IndexError"

\* The buffer of a call ended where the tag of a container's next element
\* is due: the loop broke off before a child decoder read it.
C24_Witness ==
    /\ impl = "mpinc.py"
    /\ nErr = 0
    /\ calls >= 1
    /\ pos = offered
    /\ mp._size # <<>>
    /\ ~mp.has_value
    /\ mp._type[1].T.is_container
    /\ mp._child_decoder = <<>>
    /\ Len(mp._payload_list) >= 1

====
